---- MODULE Spec2Model ----
(***************************************************************************)
(* Markdown-to-slide parser of skills/md-to-pptx/scripts/md_parser.py.     *)
(*                                                                         *)
(* Text is a sequence of one-character strings.  SlideData objects and the *)
(* list objects held by a MarkdownParser live in heaps indexed by object   *)
(* identity, so that aliasing and mutation after append are observable.    *)
(***************************************************************************)
EXTENDS Integers, Sequences, FiniteSets, TLC

(***************************************************************************)
(* Bounds of the explored inputs.                                          *)
(***************************************************************************)
\* longest document built freely from LineVocab
MaxLines == 3
\* longest run of element lines after an optional heading (BodyDocs)
MaxBody == 6
\* calls of parse() on one MarkdownParser instance
MaxRuns == 2
\* iterations of the scan loop explored beyond one per input line
MaxExtraIters == 1
\* lines of a document handed to an entry point of md_to_pptx.py
MaxPipeLines == 2
\* data rows of a table handed to an entry point of md_to_pptx.py
MaxRows == 2
\* elements of a slide handed to generate_pptx
MaxElems == 3
\* items of the long list and lines of the long code block of such a slide
BigListItems == 17
BigCodeLines == 16

(***************************************************************************)
(* Characters and str methods.                                             *)
(***************************************************************************)
NL == "\n"
\* the characters str.strip() / regex \s treat as whitespace (those in use)
WS == {" ", "\t"}
Digits == {"0", "1", "2", "3", "4", "5", "6", "7", "8", "9"}

Range(s) == {s[k] : k \in 1..Len(s)}

\* first index >= k of s whose character is outside C (Len(s)+1 when none)
RECURSIVE SpanFrom(_, _, _)
SpanFrom(s, k, C) ==
    IF k <= Len(s) /\ s[k] \in C THEN SpanFrom(s, k + 1, C) ELSE k

\* first index >= k of s whose character is c (Len(s)+1 when none)
RECURSIVE SpanUntil(_, _, _)
SpanUntil(s, k, c) ==
    IF k <= Len(s) /\ s[k] # c THEN SpanUntil(s, k + 1, c) ELSE k

\* last index <= k of s whose character is outside C (0 when none)
RECURSIVE SpanBack(_, _, _)
SpanBack(s, k, C) ==
    IF k >= 1 /\ s[k] \in C THEN SpanBack(s, k - 1, C) ELSE k

\* str.strip()
strip(s) == SubSeq(s, SpanFrom(s, 1, WS), SpanBack(s, Len(s), WS))

\* str.startswith(prefix)
startswith(s, p) == Len(s) >= Len(p) /\ SubSeq(s, 1, Len(p)) = p

\* str.endswith(suffix)
endswith(s, p) ==
    Len(s) >= Len(p) /\ SubSeq(s, Len(s) - Len(p) + 1, Len(s)) = p

\* str.split(sep) for a one-character separator: always at least one piece
RECURSIVE split(_, _)
split(s, sep) ==
    LET k == SpanUntil(s, 1, sep)
    IN  IF k > Len(s) THEN <<s>>
        ELSE <<SubSeq(s, 1, k - 1)>> \o split(SubSeq(s, k + 1, Len(s)), sep)

\* sep.join(parts)
RECURSIVE join(_, _)
join(parts, sep) ==
    IF Len(parts) = 0 THEN <<>>
    ELSE IF Len(parts) = 1 THEN parts[1]
    ELSE parts[1] \o <<sep>> \o join(Tail(parts), sep)

\* lines[i] with Python's 0-based index
At(seq, k) == seq[k + 1]

(***************************************************************************)
(* The regular expressions of the scan loop, as matchers on one line.      *)
(* Every character class that meets another in a pattern is disjoint from  *)
(* it, so the greedy match is the only candidate except where noted.       *)
(***************************************************************************)
\* the backquote character (U+0060), which no TLA+ string can hold, is
\* written as the atom BQ
BQ == "BQ"
Fence == <<BQ, BQ, BQ>>

\* line.strip().startswith(fence marker)               (lines 74, 253)
IsFence(line) == startswith(strip(line), Fence)

\* re.match(r'^\s*\|?\s*[-:]+\s*\|', line)              (line 80)
SeparatorMatch(line) ==
    LET a == SpanFrom(line, 1, WS)
        b == IF a <= Len(line) /\ line[a] = "|" THEN a + 1 ELSE a
        c == SpanFrom(line, b, WS)
        d == SpanFrom(line, c, {"-", ":"})
        e == SpanFrom(line, d, WS)
    IN  d > c /\ e <= Len(line) /\ line[e] = "|"

\* re.match(r'^\s*\|?\s*[-:]+', line)                   (line 285)
SeparatorSkipMatch(line) ==
    LET a == SpanFrom(line, 1, WS)
        b == IF a <= Len(line) /\ line[a] = "|" THEN a + 1 ELSE a
        c == SpanFrom(line, b, WS)
        d == SpanFrom(line, c, {"-", ":"})
    IN  d > c

\* group 2 of a pattern ending in \s+(.+)$ whose \s+ starts at index k:
\* \s+ is greedy, and gives its last character back to .+ when nothing else
\* is left on the line
TrailingText(line, k) ==
    LET w == SpanFrom(line, k, WS)
    IN  IF w <= Len(line) THEN SubSeq(line, w, Len(line))
        ELSE SubSeq(line, Len(line), Len(line))

\* a pattern ending in \s+(.+)$ matches from index k: one whitespace
\* character and at least one more character of any kind
TrailingMatch(line, k) == k + 1 <= Len(line) /\ line[k] \in WS

\* re.match(r'^(#{1,6})\s+(.+)$', line)                 (line 85)
HeadingHashes(line) == SpanFrom(line, 1, {"#"}) - 1
HeadingMatch(line) ==
    LET n == HeadingHashes(line)
    IN  n >= 1 /\ n <= 6 /\ TrailingMatch(line, n + 1)
\* level = len(group(1)), text = group(2).strip()       (lines 87-88)
HeadingLevel(line) == HeadingHashes(line)
HeadingText(line) == strip(TrailingText(line, HeadingHashes(line) + 1))

\* re.match(r'!\[([^\]]*)\]\(([^)]+)\)', line.strip())  (line 94)
ImgAltEnd(t) == SpanUntil(t, 3, "]")
ImgPathEnd(t) == SpanUntil(t, ImgAltEnd(t) + 2, ")")
ImgMatch(line) ==
    LET t == strip(line)
        a == ImgAltEnd(t)
        p == ImgPathEnd(t)
    IN  /\ startswith(t, <<"!", "[">>)
        /\ a + 1 <= Len(t) /\ t[a] = "]" /\ t[a + 1] = "("
        /\ p > a + 2 /\ p <= Len(t)
\* group(1), group(2)                                   (lines 96-97)
ImgAlt(line) == LET t == strip(line) IN SubSeq(t, 3, ImgAltEnd(t) - 1)
ImgPath(line) ==
    LET t == strip(line) IN SubSeq(t, ImgAltEnd(t) + 2, ImgPathEnd(t) - 1)

\* re.match(r'^\s*[-*+]\s+', line)                      (lines 103, 198)
BulletEntry(line) ==
    LET a == SpanFrom(line, 1, WS)
    IN  /\ a + 1 <= Len(line)
        /\ line[a] \in {"-", "*", "+"}
        /\ line[a + 1] \in WS

\* re.match(r'^(\s*)[-*+]\s+(.+)$', line)               (line 189)
BulletItemMatch(line) ==
    LET a == SpanFrom(line, 1, WS)
    IN  /\ a <= Len(line)
        /\ line[a] \in {"-", "*", "+"}
        /\ TrailingMatch(line, a + 1)

\* re.match(r'^\s*\d+\.\s+', line)                      (lines 108, 227)
NumberedEntry(line) ==
    LET a == SpanFrom(line, 1, WS)
        d == SpanFrom(line, a, Digits)
    IN  /\ d > a
        /\ d + 1 <= Len(line)
        /\ line[d] = "."
        /\ line[d + 1] \in WS

\* re.match(r'^(\s*)\d+\.\s+(.+)$', line)               (line 219)
NumberedItemMatch(line) ==
    LET a == SpanFrom(line, 1, WS)
        d == SpanFrom(line, a, Digits)
    IN  /\ d > a
        /\ d <= Len(line)
        /\ line[d] = "."
        /\ TrailingMatch(line, d + 1)

\* {"text": group(2).strip(), "indent": len(group(1)) // 2}
\*                                       (lines 191-193, 221-223)
BulletItem(line) ==
    LET a == SpanFrom(line, 1, WS)
    IN  [text |-> strip(TrailingText(line, a + 1)), indent |-> (a - 1) \div 2]
NumberedItem(line) ==
    LET a == SpanFrom(line, 1, WS)
        d == SpanFrom(line, a, Digits)
    IN  [text |-> strip(TrailingText(line, d + 1)), indent |-> (a - 1) \div 2]

\* path.startswith(('http://', 'https://', 'data:'))    (line 172)
NonLocal(path) ==
    \/ startswith(path, <<"h", "t", "t", "p", ":", "/", "/">>)
    \/ startswith(path, <<"h", "t", "t", "p", "s", ":", "/", "/">>)
    \/ startswith(path, <<"d", "a", "t", "a", ":">>)

\* a table row split without dropping the trailing '|'
TableCells_keeps_trailing(raw) ==
    LET a == strip(raw)
        b == IF startswith(a, <<"|">>) THEN SubSeq(a, 2, Len(a)) ELSE a
        cells == split(b, "|")
    IN  [k \in 1..Len(cells) |-> strip(cells[k])]

\* one table row: strip, drop one leading and one trailing '|', split on
\* '|', strip every cell                       (lines 276-281, 290-299)
StripCells(cells) == [k \in 1..Len(cells) |-> strip(cells[k])]
TableCells(raw) ==
    LET a == strip(raw)
        b == IF startswith(a, <<"|">>) THEN SubSeq(a, 2, Len(a)) ELSE a
        c == IF endswith(b, <<"|">>) THEN SubSeq(b, 1, Len(b) - 1) ELSE b
    IN  StripCells(split(c, "|"))

(***************************************************************************)
(* Objects.  A SlideData is a record in m.heap, named by its index; None   *)
(* is 0.  m.lists holds the list objects bound to self.slides and m.wlists *)
(* those bound to self.warnings, so m.slides and m.warnings are references.*)
(* m is the memory a handler reads and returns changed:                    *)
(*   [heap, lists, wlists, slides, current_slide, warnings].               *)
(***************************************************************************)
None == 0
EmptyDict == <<>>
Untitled == <<"U", "n", "t", "i", "t", "l", "e", "d">>
SkippedNonLocal == "Skipped non-local image: "

\* dataclass ContentElement                             (lines 27-32)
ContentElement(type, content, metadata) ==
    [type |-> type, content |-> content, metadata |-> metadata]

\* dataclass SlideData with its defaults                (lines 35-42)
SlideData(title) ==
    [title |-> title, subtitle |-> <<>>, elements |-> <<>>,
     layout_hint |-> "content", notes |-> <<>>]

\* elements.insert(0, e) in place of elements.append(e)
AppendElement_at_front(m, e) ==
    [m EXCEPT !.heap[m.current_slide].elements = <<e>> \o @]

\* self.current_slide.elements.append(e)
AppendElement(m, e) ==
    [m EXCEPT !.heap[m.current_slide].elements = Append(@, e)]

\* self.current_slide = SlideData(title=...): a new object
NewCurrentSlide(m, title) ==
    [m EXCEPT !.heap = Append(@, SlideData(title)),
              !.current_slide = Len(m.heap) + 1]

\* self.slides.append(self.current_slide)
AppendCurrentSlide(m) ==
    [m EXCEPT !.lists[m.slides] = Append(@, m.current_slide)]

\* _ensure_slide opening a new 'Untitled' slide whether or not one is open
ensure_slide_always_new(m) == NewCurrentSlide(m, Untitled)

\* MarkdownParser._ensure_slide                         (lines 127-130)
_ensure_slide(m) ==
    IF m.current_slide = None THEN NewCurrentSlide(m, Untitled) ELSE m

\* _handle_heading that appends the finished slide and then reuses the object
handle_heading_reuses_object(m, level, text) ==
    IF level <= 2
    THEN IF m.current_slide # None
         THEN LET m1 == AppendCurrentSlide(m)
              IN  [m1 EXCEPT !.heap[m1.current_slide] =
                      [SlideData(text) EXCEPT !.layout_hint =
                          IF level = 1 THEN "title" ELSE "content"]]
         ELSE LET m2 == NewCurrentSlide(m, text)
              IN  IF level = 1
                  THEN [m2 EXCEPT
                            !.heap[m2.current_slide].layout_hint = "title"]
                  ELSE m2
    ELSE AppendElement(_ensure_slide(m),
                       ContentElement("HEADING", text, [level |-> level]))

\* _handle_heading that opens the new slide without appending the finished one
handle_heading_drops_finished(m, level, text) ==
    IF level <= 2
    THEN LET m2 == NewCurrentSlide(m, text)
         IN  IF level = 1
             THEN [m2 EXCEPT !.heap[m2.current_slide].layout_hint = "title"]
             ELSE m2
    ELSE AppendElement(_ensure_slide(m),
                       ContentElement("HEADING", text, [level |-> level]))

\* MarkdownParser._handle_heading                       (lines 132-150)
_handle_heading(m, level, text) ==
    IF level <= 2
    THEN LET m1 == IF m.current_slide # None THEN AppendCurrentSlide(m) ELSE m
             m2 == NewCurrentSlide(m1, text)
         IN  IF level = 1
             THEN [m2 EXCEPT !.heap[m2.current_slide].layout_hint = "title"]
             ELSE m2
    ELSE AppendElement(_ensure_slide(m),
                       ContentElement("HEADING", text, [level |-> level]))

\* _add_paragraph that takes every paragraph of a title slide as subtitle
add_paragraph_any_as_subtitle(m, text) ==
    LET m1 == _ensure_slide(m)
        cur == m1.heap[m1.current_slide]
    IN  IF cur.layout_hint = "title"
        THEN [m1 EXCEPT !.heap[m1.current_slide].subtitle = text]
        ELSE AppendElement(m1, ContentElement("PARAGRAPH", text, EmptyDict))

\* MarkdownParser._add_paragraph                        (lines 152-165)
_add_paragraph(m, text) ==
    LET m1 == _ensure_slide(m)
        cur == m1.heap[m1.current_slide]
    IN  IF /\ cur.layout_hint = "title"
           /\ cur.subtitle = <<>>
           /\ cur.elements = <<>>
        THEN [m1 EXCEPT !.heap[m1.current_slide].subtitle = text]
        ELSE AppendElement(m1, ContentElement("PARAGRAPH", text, EmptyDict))

\* _add_image without the return after the warning
add_image_no_return(m, path, alt_text) ==
    LET m1 == _ensure_slide(m)
        m2 == IF NonLocal(path)
              THEN [m1 EXCEPT !.wlists[m1.warnings] =
                                  Append(@, <<SkippedNonLocal>> \o path)]
              ELSE m1
    IN  AppendElement(m2,
            ContentElement("IMAGE", path, [alt_text |-> alt_text]))

\* _add_image warning about a non-local image before any slide exists
add_image_warns_without_slide(m, path, alt_text) ==
    IF NonLocal(path)
    THEN [m EXCEPT !.wlists[m.warnings] =
                       Append(@, <<SkippedNonLocal>> \o path)]
    ELSE AppendElement(_ensure_slide(m),
             ContentElement("IMAGE", path, [alt_text |-> alt_text]))

\* _add_image opening a new 'Untitled' slide for every non-local image
add_image_opens_slide_each_time(m, path, alt_text) ==
    IF NonLocal(path)
    THEN LET m1 == NewCurrentSlide(m, Untitled)
         IN  [m1 EXCEPT !.wlists[m1.warnings] =
                            Append(@, <<SkippedNonLocal>> \o path)]
    ELSE AppendElement(_ensure_slide(m),
             ContentElement("IMAGE", path, [alt_text |-> alt_text]))

\* MarkdownParser._add_image                            (lines 167-180)
_add_image(m, path, alt_text) ==
    LET m1 == _ensure_slide(m)
    IN  IF NonLocal(path)
        THEN [m1 EXCEPT !.wlists[m1.warnings] =
                            Append(@, <<SkippedNonLocal>> \o path)]
        ELSE AppendElement(m1,
                 ContentElement("IMAGE", path, [alt_text |-> alt_text]))

\* the while loop of _parse_bullet_list going on after every blank line
RECURSIVE BulletLoop_absorbs_any_blank(_, _, _)
BulletLoop_absorbs_any_blank(lines, i, items) ==
    IF i < Len(lines)
    THEN IF BulletItemMatch(At(lines, i))
         THEN BulletLoop_absorbs_any_blank(
                  lines, i + 1, Append(items, BulletItem(At(lines, i))))
         ELSE IF strip(At(lines, i)) = <<>>
         THEN BulletLoop_absorbs_any_blank(lines, i + 1, items)
         ELSE [items |-> items, i |-> i]
    ELSE [items |-> items, i |-> i]

\* the while loop of _parse_bullet_list                 (lines 188-202)
RECURSIVE BulletLoop(_, _, _)
BulletLoop(lines, i, items) ==
    IF i < Len(lines)
    THEN IF BulletItemMatch(At(lines, i))
         THEN BulletLoop(lines, i + 1, Append(items, BulletItem(At(lines, i))))
         ELSE IF strip(At(lines, i)) = <<>>
         THEN IF i + 1 < Len(lines) /\ BulletEntry(At(lines, i + 1))
              THEN BulletLoop(lines, i + 1, items)
              ELSE [items |-> items, i |-> i + 1]
         ELSE [items |-> items, i |-> i]
    ELSE [items |-> items, i |-> i]

\* MarkdownParser._parse_bullet_list                    (lines 182-210)
_parse_bullet_list(m, lines, start) ==
    LET m1 == _ensure_slide(m)
        r == BulletLoop(lines, start, <<>>)
    IN  [m |-> IF r.items # <<>>
               THEN AppendElement(m1,
                        ContentElement("BULLET_LIST", r.items, EmptyDict))
               ELSE m1,
         i |-> r.i]

\* the while loop of _parse_numbered_list               (lines 218-231)
RECURSIVE NumberedLoop(_, _, _)
NumberedLoop(lines, i, items) ==
    IF i < Len(lines)
    THEN IF NumberedItemMatch(At(lines, i))
         THEN NumberedLoop(lines, i + 1,
                           Append(items, NumberedItem(At(lines, i))))
         ELSE IF strip(At(lines, i)) = <<>>
         THEN IF i + 1 < Len(lines) /\ NumberedEntry(At(lines, i + 1))
              THEN NumberedLoop(lines, i + 1, items)
              ELSE [items |-> items, i |-> i + 1]
         ELSE [items |-> items, i |-> i]
    ELSE [items |-> items, i |-> i]

\* MarkdownParser._parse_numbered_list                  (lines 212-239)
_parse_numbered_list(m, lines, start) ==
    LET m1 == _ensure_slide(m)
        r == NumberedLoop(lines, start, <<>>)
    IN  [m |-> IF r.items # <<>>
               THEN AppendElement(m1,
                        ContentElement("NUMBERED_LIST", r.items, EmptyDict))
               ELSE m1,
         i |-> r.i]

\* the while loop of _parse_code_block ending the block at a heading line
RECURSIVE CodeLoop_ends_at_heading(_, _, _)
CodeLoop_ends_at_heading(lines, i, code_lines) ==
    IF i < Len(lines)
    THEN IF IsFence(At(lines, i))
         THEN [code_lines |-> code_lines, i |-> i + 1]
         ELSE IF HeadingMatch(At(lines, i))
         THEN [code_lines |-> code_lines, i |-> i]
         ELSE CodeLoop_ends_at_heading(lines, i + 1,
                                       Append(code_lines, At(lines, i)))
    ELSE [code_lines |-> code_lines, i |-> i]

\* the while loop of _parse_code_block                  (lines 252-257)
RECURSIVE CodeLoop(_, _, _)
CodeLoop(lines, i, code_lines) ==
    IF i < Len(lines)
    THEN IF IsFence(At(lines, i))
         THEN [code_lines |-> code_lines, i |-> i + 1]
         ELSE CodeLoop(lines, i + 1, Append(code_lines, At(lines, i)))
    ELSE [code_lines |-> code_lines, i |-> i]

\* MarkdownParser._parse_code_block                     (lines 241-265)
_parse_code_block(m, lines, start) ==
    LET m1 == _ensure_slide(m)
        first_line == strip(At(lines, start))
        language == IF Len(first_line) > 3
                    THEN strip(SubSeq(first_line, 4, Len(first_line)))
                    ELSE <<>>
        r == CodeLoop(lines, start + 1, <<>>)
    IN  [m |-> AppendElement(m1,
                   ContentElement("CODE_BLOCK", join(r.code_lines, NL),
                                  [language |-> language])),
         i |-> r.i]

\* the data-row loop of _parse_table                    (lines 289-301)
RECURSIVE RowLoop(_, _, _)
RowLoop(lines, i, rows) ==
    IF i < Len(lines)
    THEN LET line == strip(At(lines, i))
         IN  IF line = <<>> \/ "|" \notin Range(line)
             THEN [rows |-> rows, i |-> i]
             ELSE RowLoop(lines, i + 1, Append(rows, TableCells(line)))
    ELSE [rows |-> rows, i |-> i]

\* MarkdownParser._parse_table                          (lines 267-308)
_parse_table(m, lines, start) ==
    LET m1 == _ensure_slide(m)
        headers == TableCells(At(lines, start))
        i1 == start + 1
        i2 == IF i1 < Len(lines) /\ SeparatorSkipMatch(At(lines, i1))
              THEN i1 + 1 ELSE i1
        r == RowLoop(lines, i2, <<>>)
    IN  [m |-> AppendElement(m1,
                   ContentElement("TABLE",
                                  [headers |-> headers, rows |-> r.rows],
                                  EmptyDict)),
         i |-> r.i]

\* the decision with the two-column threshold one too high
LayoutOf_more_than_five(slide) ==
    LET types == {slide.elements[k].type : k \in 1..Len(slide.elements)}
        element_count == Len(slide.elements)
    IN  IF slide.layout_hint = "title" THEN "title"
        ELSE IF "CHART_DATA" \in types THEN "chart"
        ELSE IF "IMAGE" \in types /\ element_count <= 3 THEN "image"
        ELSE IF types \cap {"TABLE", "CODE_BLOCK"} # {} THEN "content"
        ELSE IF element_count > 5 THEN "two_column"
        ELSE "content"

\* the decision with the table/code test moved ahead of the image test
LayoutOf_table_first(slide) ==
    LET has_image == \E k \in 1..Len(slide.elements) :
                         slide.elements[k].type = "IMAGE"
        has_table == \E k \in 1..Len(slide.elements) :
                         slide.elements[k].type \in {"TABLE", "CODE_BLOCK"}
        element_count == Len(slide.elements)
    IN  IF slide.layout_hint = "title" THEN "title"
        ELSE IF has_table THEN "content"
        ELSE IF has_image /\ element_count <= 3 THEN "image"
        ELSE IF element_count > 4 THEN "two_column"
        ELSE "content"

\* the decision that takes a table for chart data
LayoutOf_table_is_chart(slide) ==
    LET types == {slide.elements[k].type : k \in 1..Len(slide.elements)}
        element_count == Len(slide.elements)
    IN  IF slide.layout_hint = "title" THEN "title"
        ELSE IF types \cap {"CHART_DATA", "TABLE"} # {} THEN "chart"
        ELSE IF "IMAGE" \in types /\ element_count <= 3 THEN "image"
        ELSE IF "CODE_BLOCK" \in types THEN "content"
        ELSE IF element_count > 4 THEN "two_column"
        ELSE "content"

\* the decision of _determine_layouts for one slide     (lines 313-332)
HasType(elements, type) == \E k \in 1..Len(elements) : elements[k].type = type
LayoutOf(slide) ==
    LET has_image == HasType(slide.elements, "IMAGE")
        has_table == HasType(slide.elements, "TABLE")
        has_chart == HasType(slide.elements, "CHART_DATA")
        has_code == HasType(slide.elements, "CODE_BLOCK")
        element_count == Len(slide.elements)
    IN  IF slide.layout_hint = "title" THEN "title"
        ELSE IF has_chart THEN "chart"
        ELSE IF has_image /\ element_count <= 3 THEN "image"
        ELSE IF has_table \/ has_code THEN "content"
        ELSE IF element_count > 4 THEN "two_column"
        ELSE "content"

\* MarkdownParser._determine_layouts                    (lines 310-332)
_determine_layouts(m) ==
    [m EXCEPT !.heap = [id \in 1..Len(m.heap) |->
        IF id \in Range(m.lists[m.slides])
        THEN [m.heap[id] EXCEPT !.layout_hint = LayoutOf(m.heap[id])]
        ELSE m.heap[id]]]

(***************************************************************************)
(* The generator of skills/md-to-pptx/scripts/pptx_generator.py.           *)
(*                                                                         *)
(* The rendering backend and the file system are the environment env:      *)
(*   add_slide_ok  slides.add_slide succeeds (the presentation has a       *)
(*                 usable slide layout)                                    *)
(*   rejects       the texts whose assignment to a text frame raises       *)
(*   save_ok       prs.save succeeds                                       *)
(*   verbose       the caller passes a progress callback                   *)
(*   img           what an image path leads to: "missing", "broken",       *)
(*                 "nopil" (no image library), "wide", "tall"              *)
(*   chart_ok      shapes.add_chart succeeds                               *)
(*   input         convert_md_to_pptx's input file: "ok", "missing",       *)
(*                 "unreadable"                                            *)
(*   template      the custom template path: "none", "missing"             *)
(* g is the memory of one PPTXGenerator while generate() runs:             *)
(*   [prs, warnings, log, placed, exc]                                     *)
(* prs is the sequence of slides of the presentation, each with the shapes *)
(* added to it; log is the history of progress calls and rendering steps;  *)
(* placed is the history of the elements handed to an element renderer,    *)
(* with the position and the height the renderer returned; exc is the      *)
(* exception in flight, NoExc when there is none.                          *)
(***************************************************************************)
NoExc == "none"
Raised(g) == g.exc # NoExc

\* the element of a set of one element; in Only({e : r \in {v}}) the value
\* v is computed once and e is computed with r bound to it, as an
\* assignment r = v followed by e
Only(S) == CHOOSE x \in S : TRUE

\* pptx.util.Inches of n/d inches: English Metric Units, truncated
Inches(n, d) == (n \div d) * 914400 + ((n % d) * 914400) \div d

SLIDE_WIDTH == Inches(13333, 1000)
SLIDE_HEIGHT == Inches(75, 10)
MARGIN_LEFT == Inches(5, 10)
MARGIN_RIGHT == Inches(5, 10)
MARGIN_TOP == Inches(12, 10)
MARGIN_BOTTOM == Inches(5, 10)

Shape(what, elem, left, top, width, height) ==
    [what |-> what, elem |-> elem, left |-> left, top |-> top,
     width |-> width, height |-> height]

Event(ev, current, total) == [ev |-> ev, current |-> current, total |-> total]

\* history: element k was handed to a renderer for the slide added last
Placed(g, via, k, left, top, width, height) ==
    [g EXCEPT !.placed =
        Append(@, [slide |-> Len(g.prs), via |-> via, elem |-> k,
                   left |-> left, top |-> top, width |-> width,
                   height |-> height])]

\* self.warnings.append(w)
Warn(g, w) == [g EXCEPT !.warnings = Append(@, w)]

\* slide.shapes.add_textbox / add_shape / add_table / add_picture / add_chart
\* on the slide the creator holds, the one it added last
add_shape(g, sh) == [g EXCEPT !.prs[Len(g.prs)].shapes = Append(@, sh)]

\* p.text = text for each text of texts
set_text(g, env, texts) ==
    IF texts \cap env.rejects # {} THEN [g EXCEPT !.exc = "ValueError"] ELSE g

\* PPTXGenerator._report_progress
_report_progress(g, env, current, total) ==
    IF env.verbose
    THEN [g EXCEPT !.log = Append(@, Event("progress", current, total))]
    ELSE g

\* PPTXGenerator._add_blank_slide, called by creator `by` for slide n of the
\* deck: with no usable layout every add_slide raises, the last one uncaught
_add_blank_slide(g, env, by, n) ==
    IF env.add_slide_ok
    THEN [g EXCEPT !.prs = Append(@, [data |-> n, by |-> by, shapes |-> <<>>])]
    ELSE [g EXCEPT !.exc = "IndexError"]

\* PPTXGenerator._add_title_shape
_add_title_shape(g, env, title) ==
    set_text(add_shape(g, Shape("title", 0, MARGIN_LEFT, Inches(3, 10),
                                SLIDE_WIDTH - MARGIN_LEFT - MARGIN_RIGHT,
                                Inches(8, 10))),
             env, {title})

\* PPTXGenerator._add_paragraph_element
_add_paragraph_element(g, env, element, k, left, top, width) ==
    LET height == Inches(5, 10)
    IN  [g |-> set_text(add_shape(g, Shape("element", k, left, top, width,
                                           height)),
                        env, {element.content}),
         height |-> height]

\* PPTXGenerator._add_heading_element
_add_heading_element(g, env, element, k, left, top, width) ==
    LET height == Inches(4, 10)
    IN  [g |-> set_text(add_shape(g, Shape("element", k, left, top, width,
                                           height)),
                        env, {element.content}),
         height |-> height]

\* the text of item n of a list: indent, prefix, text      (lines 513-517)
ListItemText(type, items, n) ==
    [k \in 1..items[n].indent |-> "    "]
    \o <<IF type = "NUMBERED_LIST" THEN ToString(n) \o ". " ELSE "* ">>
    \o items[n].text

\* PPTXGenerator._add_list_element
_add_list_element(g, env, element, k, left, top, width) ==
    LET items == element.content
        line_height == Inches(35, 100)
        height == line_height * Len(items)
    IN  [g |-> set_text(add_shape(g, Shape("element", k, left, top, width,
                                           height)),
                        env, {ListItemText(element.type, items, n) :
                                 n \in 1..Len(items)}),
         height |-> height]

\* PPTXGenerator._add_code_element
_add_code_element(g, env, element, k, left, top, width) ==
    LET code_lines == split(element.content, NL)
        line_count == IF Len(code_lines) < 15 THEN Len(code_lines) ELSE 15
        line_height == Inches(25, 100)
        height == line_height * line_count + Inches(3, 10)
        g1 == add_shape(g, Shape("element", k, left, top, width, height))
        g2 == add_shape(g1, Shape("code_text", k, left + Inches(1, 10),
                                  top + Inches(1, 10), width - Inches(2, 10),
                                  height - Inches(2, 10)))
        display_code ==
            IF Len(code_lines) > line_count
            THEN join(SubSeq(code_lines, 1, line_count), NL)
                 \o <<NL, "... (" \o ToString(Len(code_lines) - line_count)
                            \o " more lines)">>
            ELSE join(SubSeq(code_lines, 1, line_count), NL)
    IN  [g |-> set_text(g2, env, {display_code}), height |-> height]

\* _add_table_element counting the data rows only
add_table_element_data_rows_only(g, env, element, k, left, top, width) ==
    LET headers == element.content.headers
        rows == element.content.rows
        col_count == IF headers # <<>> THEN Len(headers)
                     ELSE IF rows # <<>> THEN Len(rows[1]) ELSE 0
        row_count == Len(rows)
        row_height == Inches(4, 10)
        height == row_height * row_count
        texts == Range(headers) \cup
                 {rows[r][c] : <<r, c>> \in
                     {rc \in (1..Len(rows)) \X (1..col_count) :
                         rc[2] <= Len(rows[rc[1]])}}
    IN  IF headers = <<>> /\ rows = <<>> THEN [g |-> g, height |-> 0]
        ELSE IF col_count = 0 \/ row_count = 0 THEN [g |-> g, height |-> 0]
        ELSE [g |-> set_text(add_shape(g, Shape("element", k, left, top,
                                                width, height)),
                             env, texts),
              height |-> height]

\* PPTXGenerator._add_table_element
_add_table_element(g, env, element, k, left, top, width) ==
    LET headers == element.content.headers
        rows == element.content.rows
        col_count == IF headers # <<>> THEN Len(headers)
                     ELSE IF rows # <<>> THEN Len(rows[1]) ELSE 0
        row_count == Len(rows) + (IF headers # <<>> THEN 1 ELSE 0)
        row_height == Inches(4, 10)
        height == row_height * row_count
        texts == Range(headers) \cup
                 {rows[r][c] : <<r, c>> \in
                     {rc \in (1..Len(rows)) \X (1..col_count) :
                         rc[2] <= Len(rows[rc[1]])}}
    IN  IF headers = <<>> /\ rows = <<>> THEN [g |-> g, height |-> 0]
        ELSE IF col_count = 0 \/ row_count = 0 THEN [g |-> g, height |-> 0]
        ELSE [g |-> set_text(add_shape(g, Shape("element", k, left, top,
                                                width, height)),
                             env, texts),
              height |-> height]

\* the pixel size Image.open reports: <<img_width, img_height>>
ImageSize(img) == IF img = "wide" THEN <<4, 1>> ELSE <<1, 1>>

\* PPTXGenerator._add_image_element: a failure inside the try is a warning
_add_image_element(g, env, element, k, left, top, width) ==
    LET img_path == element.content
        max_height == Inches(4, 1)
        size == ImageSize(env.img)
        capped == width * size[2] > max_height * size[1]
        height == IF env.img = "nopil" \/ capped THEN max_height
                  ELSE (width * size[2]) \div size[1]
        actual_width == IF env.img = "nopil" \/ ~capped THEN width
                        ELSE (max_height * size[1]) \div size[2]
        center_left == left + (width - actual_width) \div 2
    IN  IF env.img = "missing"
        THEN [g |-> Warn(g, <<"Image not found: ">> \o img_path),
              height |-> 0]
        ELSE IF env.img = "broken"
        THEN [g |-> Warn(g, <<"Failed to add image ">> \o img_path
                                \o <<": ", "OSError">>),
              height |-> 0]
        ELSE [g |-> add_shape(g, Shape("element", k, center_left, top,
                                       actual_width, height)),
              height |-> height]

\* PPTXGenerator._add_chart_from_table: the fall-backs to the table are
\* outside the try
_add_chart_from_table(g, env, element, k, left, top, width, height) ==
    LET headers == element.content.headers
        rows == element.content.rows
    IN  IF Len(headers) < 2 \/ rows = <<>>
        THEN _add_table_element(g, env, element, k, left, top, width).g
        ELSE IF env.chart_ok
        THEN add_shape(g, Shape("chart", k, left, top, width, height))
        ELSE _add_table_element(
                 Warn(g, <<"Chart creation failed: ", "ValueError">>),
                 env, element, k, left, top, width).g

\* PPTXGenerator._add_element
_add_element(g, env, element, k, left, top, width) ==
    LET r == IF element.type = "PARAGRAPH"
             THEN _add_paragraph_element(g, env, element, k, left, top, width)
             ELSE IF element.type = "HEADING"
             THEN _add_heading_element(g, env, element, k, left, top, width)
             ELSE IF element.type \in {"BULLET_LIST", "NUMBERED_LIST"}
             THEN _add_list_element(g, env, element, k, left, top, width)
             ELSE IF element.type = "CODE_BLOCK"
             THEN _add_code_element(g, env, element, k, left, top, width)
             ELSE IF element.type = "TABLE"
             THEN _add_table_element(g, env, element, k, left, top, width)
             ELSE IF element.type = "IMAGE"
             THEN _add_image_element(g, env, element, k, left, top, width)
             ELSE [g |-> g, height |-> 0]
    IN  Only({[g |-> Placed(ret.g, "flow", k, left, top, width, ret.height),
               height |-> ret.height] : ret \in {r}})

\* a title slide that goes on to place its first element under the subtitle
create_title_slide_with_element(g, env, slide_data, n) ==
    LET width == SLIDE_WIDTH - MARGIN_LEFT - MARGIN_RIGHT
        g1 == _add_blank_slide(g, env, "title", n)
        g2 == set_text(add_shape(g1, Shape("title", 0, MARGIN_LEFT,
                                           Inches(25, 10), width,
                                           Inches(15, 10))),
                       env, {slide_data.title})
        g3 == IF slide_data.subtitle = <<>> THEN g2
              ELSE set_text(add_shape(g2, Shape("subtitle", 0, MARGIN_LEFT,
                                                Inches(40, 10), width,
                                                Inches(1, 1))),
                            env, {slide_data.subtitle})
    IN  IF Raised(g1) THEN g1
        ELSE IF Raised(g2) THEN g2
        ELSE IF Raised(g3) \/ slide_data.elements = <<>> THEN g3
        ELSE Only({r.g : r \in {_add_element(g3, env, slide_data.elements[1],
                                             1, MARGIN_LEFT, Inches(5, 1),
                                             width)}})

\* PPTXGenerator._create_title_slide
_create_title_slide(g, env, slide_data, n) ==
    LET width == SLIDE_WIDTH - MARGIN_LEFT - MARGIN_RIGHT
        g1 == _add_blank_slide(g, env, "title", n)
        g2 == set_text(add_shape(g1, Shape("title", 0, MARGIN_LEFT,
                                           Inches(25, 10), width,
                                           Inches(15, 10))),
                       env, {slide_data.title})
    IN  IF Raised(g1) THEN g1
        ELSE IF Raised(g2) \/ slide_data.subtitle = <<>> THEN g2
        ELSE set_text(add_shape(g2, Shape("subtitle", 0, MARGIN_LEFT,
                                          Inches(40, 10), width,
                                          Inches(1, 1))),
                      env, {slide_data.subtitle})

\* the loop of _create_content_slide testing the cursor against the height
\* of the slide, without the bottom margin
RECURSIVE ContentLoop_tests_slide_height(_, _, _, _, _)
ContentLoop_tests_slide_height(g, env, slide_data, k, current_top) ==
    IF k > Len(slide_data.elements) \/ Raised(g) THEN g
    ELSE IF current_top > SLIDE_HEIGHT
    THEN Warn(g, <<"Content overflow on slide: ">> \o slide_data.title)
    ELSE Only({ContentLoop_tests_slide_height(
                   r.g, env, slide_data, k + 1,
                   current_top + r.height + Inches(2, 10)) :
               r \in {_add_element(g, env, slide_data.elements[k], k,
                                   MARGIN_LEFT, current_top,
                                   SLIDE_WIDTH - MARGIN_LEFT
                                       - MARGIN_RIGHT)}})

\* the loop of _create_content_slide recording the overflow without the break
RECURSIVE ContentLoop_warns_and_goes_on(_, _, _, _, _)
ContentLoop_warns_and_goes_on(g, env, slide_data, k, current_top) ==
    IF k > Len(slide_data.elements) \/ Raised(g) THEN g
    ELSE Only({ContentLoop_warns_and_goes_on(
                   r.g, env, slide_data, k + 1,
                   current_top + r.height + Inches(2, 10)) :
               r \in {_add_element(
                          IF current_top > SLIDE_HEIGHT - MARGIN_BOTTOM
                          THEN Warn(g, <<"Content overflow on slide: ">>
                                           \o slide_data.title)
                          ELSE g,
                          env, slide_data.elements[k], k, MARGIN_LEFT,
                          current_top,
                          SLIDE_WIDTH - MARGIN_LEFT - MARGIN_RIGHT)}})

\* the loop of _create_content_slide from element k on     (lines 312-320)
RECURSIVE ContentLoop(_, _, _, _, _)
ContentLoop(g, env, slide_data, k, current_top) ==
    IF k > Len(slide_data.elements) \/ Raised(g) THEN g
    ELSE IF current_top > SLIDE_HEIGHT - MARGIN_BOTTOM
    THEN Warn(g, <<"Content overflow on slide: ">> \o slide_data.title)
    ELSE Only({ContentLoop(r.g, env, slide_data, k + 1,
                           current_top + r.height + Inches(2, 10)) :
               r \in {_add_element(g, env, slide_data.elements[k], k,
                                   MARGIN_LEFT, current_top,
                                   SLIDE_WIDTH - MARGIN_LEFT
                                       - MARGIN_RIGHT)}})

\* PPTXGenerator._create_content_slide
_create_content_slide(g, env, slide_data, n) ==
    Only({IF Raised(g1) THEN g1
          ELSE Only({ContentLoop(g2, env, slide_data, 1, MARGIN_TOP) :
                     g2 \in {_add_title_shape(g1, env, slide_data.title)}}) :
          g1 \in {_add_blank_slide(g, env, "content", n)}})

\* a loop that places the elements numbered ks one under the other
\*                                       (lines 349-355, 408-410, 415-417)
RECURSIVE FlowLoop(_, _, _, _, _, _, _, _)
FlowLoop(g, env, slide_data, ks, left, current_top, width, gap) ==
    IF ks = <<>> \/ Raised(g) THEN g
    ELSE Only({FlowLoop(r.g, env, slide_data, Tail(ks), left,
                        current_top + r.height + gap, width, gap) :
               r \in {_add_element(g, env, slide_data.elements[Head(ks)],
                                   Head(ks), left, current_top, width)}})

\* <<1, ..., n>>
Indices(n) == [k \in 1..n |-> k]

\* the element numbers of the given types, in order
OfTypes(elements, types) ==
    SelectSeq(Indices(Len(elements)), LAMBDA k : elements[k].type \in types)

\* _create_image_slide placing one element below the image, not two
create_image_slide_one_extra(g, env, slide_data, n) ==
    LET elements == slide_data.elements
        images == OfTypes(elements, {"IMAGE"})
        image_elem == IF images = <<>> THEN None ELSE Head(images)
        other_elements == SelectSeq(Indices(Len(elements)),
                                    LAMBDA k : k # image_elem)
        g1 == _add_blank_slide(g, env, "image", n)
        g2 == _add_title_shape(g1, env, slide_data.title)
        r == _add_image_element(g2, env, elements[image_elem], image_elem,
                                Inches(2, 1), Inches(15, 10),
                                SLIDE_WIDTH - Inches(4, 1))
        g3 == IF image_elem # None
              THEN Placed(r.g, "image", image_elem, Inches(2, 1),
                          Inches(15, 10), SLIDE_WIDTH - Inches(4, 1),
                          r.height)
              ELSE g2
        first_two == IF Len(other_elements) <= 1 THEN other_elements
                     ELSE SubSeq(other_elements, 1, 1)
    IN  IF Raised(g1) THEN g1
        ELSE IF Raised(g2) THEN g2
        ELSE FlowLoop(g3, env, slide_data, first_two, MARGIN_LEFT,
                      Inches(55, 10),
                      SLIDE_WIDTH - MARGIN_LEFT - MARGIN_RIGHT,
                      Inches(1, 10))

\* PPTXGenerator._create_image_slide
_create_image_slide(g, env, slide_data, n) ==
    LET elements == slide_data.elements
        images == OfTypes(elements, {"IMAGE"})
        image_elem == IF images = <<>> THEN None ELSE Head(images)
        other_elements == SelectSeq(Indices(Len(elements)),
                                    LAMBDA k : k # image_elem)
        g1 == _add_blank_slide(g, env, "image", n)
        g2 == _add_title_shape(g1, env, slide_data.title)
        r == _add_image_element(g2, env, elements[image_elem], image_elem,
                                Inches(2, 1), Inches(15, 10),
                                SLIDE_WIDTH - Inches(4, 1))
        g3 == IF image_elem # None
              THEN Placed(r.g, "image", image_elem, Inches(2, 1),
                          Inches(15, 10), SLIDE_WIDTH - Inches(4, 1),
                          r.height)
              ELSE g2
        first_two == IF Len(other_elements) <= 2 THEN other_elements
                     ELSE SubSeq(other_elements, 1, 2)
    IN  IF Raised(g1) THEN g1
        ELSE IF Raised(g2) THEN g2
        ELSE FlowLoop(g3, env, slide_data, first_two, MARGIN_LEFT,
                      Inches(55, 10),
                      SLIDE_WIDTH - MARGIN_LEFT - MARGIN_RIGHT,
                      Inches(1, 10))

\* PPTXGenerator._create_chart_slide; _add_chart_element does nothing
_create_chart_slide(g, env, slide_data, n) ==
    LET elements == slide_data.elements
        charts == OfTypes(elements, {"CHART_DATA", "TABLE"})
        chart_elem == IF charts = <<>> THEN None ELSE Head(charts)
        g1 == _add_blank_slide(g, env, "chart", n)
        g2 == _add_title_shape(g1, env, slide_data.title)
    IN  IF Raised(g1) THEN g1
        ELSE IF Raised(g2) \/ chart_elem = None THEN g2
        ELSE IF elements[chart_elem].type = "TABLE"
        THEN Placed(_add_chart_from_table(g2, env, elements[chart_elem],
                                          chart_elem, Inches(1, 1),
                                          Inches(15, 10),
                                          SLIDE_WIDTH - Inches(2, 1),
                                          Inches(5, 1)),
                    "chart", chart_elem, Inches(1, 1), Inches(15, 10),
                    SLIDE_WIDTH - Inches(2, 1), Inches(5, 1))
        ELSE g2

\* PPTXGenerator._create_two_column_slide; the half of an odd width in EMU
\* is truncated here
_create_two_column_slide(g, env, slide_data, n) ==
    LET elements == slide_data.elements
        mid == Len(elements) \div 2
        left_elements == SubSeq(Indices(Len(elements)), 1, mid)
        right_elements == SubSeq(Indices(Len(elements)), mid + 1,
                                 Len(elements))
        col_width == (SLIDE_WIDTH - MARGIN_LEFT - MARGIN_RIGHT
                      - Inches(5, 10)) \div 2
        right_left == MARGIN_LEFT + col_width + Inches(5, 10)
        g1 == _add_blank_slide(g, env, "two_column", n)
        g2 == _add_title_shape(g1, env, slide_data.title)
        g3 == FlowLoop(g2, env, slide_data, left_elements, MARGIN_LEFT,
                       MARGIN_TOP, col_width, Inches(15, 100))
    IN  IF Raised(g1) THEN g1
        ELSE IF Raised(g2) THEN g2
        ELSE FlowLoop(g3, env, slide_data, right_elements, right_left,
                      MARGIN_TOP, col_width, Inches(15, 100))

\* PPTXGenerator._create_fallback_slide
_create_fallback_slide(g, env, slide_data, n) ==
    LET g1 == _add_blank_slide(g, env, "fallback", n)
        g2 == _add_title_shape(g1, env, slide_data.title)
    IN  IF Raised(g1) THEN g1
        ELSE IF Raised(g2) THEN g2
        ELSE add_shape(g2, Shape("note", 0, MARGIN_LEFT, MARGIN_TOP,
                                 SLIDE_WIDTH - MARGIN_LEFT - MARGIN_RIGHT,
                                 Inches(1, 1)))

\* the dispatch on layout_hint                             (lines 180-189)
CreateSlide(g, env, slide_data, n) ==
    IF slide_data.layout_hint = "title"
    THEN _create_title_slide(g, env, slide_data, n)
    ELSE IF slide_data.layout_hint = "image"
    THEN _create_image_slide(g, env, slide_data, n)
    ELSE IF slide_data.layout_hint = "chart"
    THEN _create_chart_slide(g, env, slide_data, n)
    ELSE IF slide_data.layout_hint = "two_column"
    THEN _create_two_column_slide(g, env, slide_data, n)
    ELSE _create_content_slide(g, env, slide_data, n)

\* the except clause of the loop of generate               (lines 190-193)
ExceptClause(g, env, slide_data, n) ==
    _create_fallback_slide(
        Warn([g EXCEPT !.exc = NoExc],
             <<"Error on slide ", ToString(n), ": ", g.exc>>),
        env, slide_data, n)

\* one iteration of the loop of generate reporting progress once the slide
\* has been created
LoopBody_reports_after(g, env, slide_data, n, total) ==
    LET g2 == [g EXCEPT !.log = Append(@, Event("render", n, total))]
        g3 == CreateSlide(g2, env, slide_data, n)
        g4 == IF Raised(g3) THEN ExceptClause(g3, env, slide_data, n) ELSE g3
    IN  IF Raised(g4) THEN g4 ELSE _report_progress(g4, env, n, total)

\* one iteration of the loop of generate, for slide n of total
\*                                                         (lines 176-193)
LoopBody(g, env, slide_data, n, total) ==
    LET g1 == _report_progress(g, env, n, total)
        g2 == [g1 EXCEPT !.log = Append(@, Event("render", n, total))]
    IN  Only({IF Raised(g3) THEN ExceptClause(g3, env, slide_data, n)
              ELSE g3 :
              g3 \in {CreateSlide(g2, env, slide_data, n)}})

\* the end of generate reporting success whatever save did
SavePresentation_reports_success(g, env, total) ==
    IF env.save_ok
    THEN [g |-> _report_progress(
                    [g EXCEPT !.log = Append(@, Event("save", total, total))],
                    env, total, total),
          success |-> TRUE]
    ELSE [g |-> Warn(g, <<"Failed to save: ", "OSError">>),
          success |-> TRUE]

\* the end of generate                                     (lines 195-202)
SavePresentation(g, env, total) ==
    IF env.save_ok
    THEN [g |-> _report_progress(
                    [g EXCEPT !.log = Append(@, Event("save", total, total))],
                    env, total, total),
          success |-> TRUE]
    ELSE [g |-> Warn(g, <<"Failed to save: ", "OSError">>),
          success |-> FALSE]

(***************************************************************************)
(* Inputs.  A document is a sequence of lines; markdown_text is its lines  *)
(* joined by newlines, which parse() splits again.                         *)
(***************************************************************************)
\* ''
LnBlank == <<>>
\* '# A'
LnH1 == <<"#", " ", "A">>
\* '## B'
LnH2 == <<"#", "#", " ", "B">>
\* '### C'
LnH3 == <<"#", "#", "#", " ", "C">>
\* 'x'
LnPara == <<"x">>
\* '![a](b)'
LnImage == <<"!", "[", "a", "]", "(", "b", ")">>
\* '![a](http://c)'
LnImageHttp ==
    <<"!", "[", "a", "]", "(", "h", "t", "t", "p", ":", "/", "/", "c", ")">>
\* '- x'
LnBullet == <<"-", " ", "x">>
\* '- '
LnBulletEmpty == <<"-", " ">>
\* '1. y'
LnNumbered == <<"1", ".", " ", "y">>
\* 'three backquotes'
LnFence == <<BQ, BQ, BQ>>
\* '|-|'
LnSeparator == <<"|", "-", "|">>
\* 'a|b'
LnRow == <<"a", "|", "b">>
\* '|-|x': a dash cell, then a cell of text
LnSepThenText == <<"|", "-", "|", "x">>
\* '|-': a dash cell with no closing '|'
LnSepOpen == <<"|", "-">>
\* '# A|B'
LnH1Pipe == <<"#", " ", "A", "|", "B">>
\* '![](https://c)'
LnImageHttps ==
    <<"!", "[", "]", "(", "h", "t", "t", "p", "s", ":", "/", "/", "c", ")">>
\* '![a](data:d)'
LnImageData == <<"!", "[", "a", "]", "(", "d", "a", "t", "a", ":", "d", ")">>

LineVocab ==
    {LnBlank, LnH1, LnH2, LnH3,
     LnPara, LnImage, LnImageHttp, LnBullet,
     LnBulletEmpty, LnNumbered, LnFence, LnSeparator,
     LnH1Pipe}

\* the end-to-end scenario of the specification, section 8
Demo1 == <<"#", " ", "D", "e", "m", "o">>
Demo3 ==
    <<"A", " ", "s", "h", "o", "r", "t", " ", "s", "u", "b", "t", "i", "t",
      "l", "e">>
Demo5 == <<"#", "#", " ", "P", "o", "i", "n", "t", "s">>
Demo7 == <<"-", " ", "O", "n", "e">>
Demo8 == <<"-", " ", "T", "w", "o">>
Demo10 == <<"#", "#", " ", "D", "a", "t", "a">>
Demo12 == <<"|", " ", "A", " ", "|", " ", "B", " ", "|">>
Demo13 == <<"|", "-", "-", "-", "|", "-", "-", "-", "|">>
Demo14 == <<"|", " ", "1", " ", "|", " ", "2", " ", "|">>
DemoDoc ==
    <<Demo1, LnBlank, Demo3, LnBlank, Demo5, LnBlank, Demo7,
      Demo8, LnBlank, Demo10, LnBlank, Demo12, Demo13, Demo14>>

\* every sequence over S of length lo..hi
SeqsBetween(S, lo, hi) == UNION {[1..n -> S] : n \in lo..hi}

\* documents built freely from LineVocab
GeneralDocs == SeqsBetween(LineVocab, 1, MaxLines)

\* an optional first line, then up to MaxBody lines that each add an element
Heads == {<<>>, <<LnH1>>, <<LnH2>>, <<LnImageHttps>>, <<LnImageData>>}
BodyVocab == {LnPara, LnImage, LnFence}
BodyDocs ==
    {h \o b : h \in Heads, b \in SeqsBetween(BodyVocab, 1, MaxBody)}

\* a table header above rows that are, or resemble, a separator row
RowsUnderHeader == {LnSeparator, LnSepThenText, LnSepOpen, LnPara}
TableEdgeDocs ==
    {<<LnRow, u>> \o t : u \in RowsUnderHeader, t \in {<<>>, <<LnRow>>}}

\* a line behind n spaces
Indented(n, line) == [k \in 1..n |-> " "] \o line

\* list items behind 0..4 whitespace characters, and lists around two
\* blank lines
ListDocs ==
    {[k \in 1..5 |-> Indented(k - 1, LnBullet)],
     [k \in 1..5 |-> Indented(k - 1, LnNumbered)],
     <<LnBullet, <<"\t">> \o LnBullet, LnBlank, Indented(2, LnBullet)>>,
     <<LnBullet, LnBlank, LnBlank, LnBullet>>,
     <<LnNumbered, LnBlank, LnBlank, LnNumbered>>,
     <<LnBullet, LnBlank, LnBulletEmpty>>,
     <<LnNumbered, LnBlank, LnBullet, LnBlank>>}

\* '  '
LnSpaces == <<" ", " ">>
\* documents of white space, alone and around a line that is not blank
BlankDocs ==
    {<<LnSpaces>>, <<LnSpaces, <<"\t">>, LnBlank, <<" ", "\t">> >>,
     <<LnBlank, LnSpaces, LnImageHttp, LnSpaces>>,
     <<LnSpaces, Indented(2, LnH3), LnBlank>>,
     <<LnSpaces, Indented(1, LnFence)>>}

Docs ==
    GeneralDocs \cup BodyDocs \cup {DemoDoc} \cup TableEdgeDocs
        \cup ListDocs \cup BlankDocs

(***************************************************************************)
(* Inputs of the entry points of md_to_pptx.py and of generate_pptx.       *)
(***************************************************************************)
\* documents handed to convert_md_to_pptx and generate_from_content
PipeVocab ==
    {LnBlank, LnH1, LnH2, LnPara, LnImage, LnImageHttp, LnBullet,
     LnNumbered, LnFence, LnSeparator}
TableDocs ==
    {<<LnRow, LnSeparator>> \o r : r \in SeqsBetween({LnRow}, 0, MaxRows)}
\* slides of three and four elements with an image among them
ImageDocs ==
    {<<LnImage, LnPara, LnBullet>>,
     <<LnPara, LnImage, LnImage>>,
     <<LnH2, LnNumbered, LnPara, LnImage>>,
     <<LnImage, LnPara, LnPara, LnPara>>}
\* a level-1 heading with content under it
TitleDocs ==
    {<<LnH1, LnPara, LnBullet, LnPara>>,
     <<LnH1, LnPara, LnFence, LnPara, LnFence>>,
     <<LnH1, LnPara, LnRow, LnSeparator, LnRow>>,
     <<LnH1, LnBullet, LnPara>>,
     <<LnH1, LnPara, LnPara, LnNumbered, LnImage>>}
PipeDocs ==
    SeqsBetween(PipeVocab, 1, MaxPipeLines) \cup TableDocs \cup ImageDocs
        \cup TitleDocs

\* the environments
Healthy ==
    [add_slide_ok |-> TRUE, rejects |-> {}, save_ok |-> TRUE,
     verbose |-> TRUE, img |-> "wide", chart_ok |-> TRUE, input |-> "ok",
     template |-> "none"]
ContentEnvs ==
    {Healthy,
     [Healthy EXCEPT !.verbose = FALSE],
     [Healthy EXCEPT !.save_ok = FALSE],
     [Healthy EXCEPT !.add_slide_ok = FALSE],
     [Healthy EXCEPT !.rejects = {LnPara}],
     [Healthy EXCEPT !.rejects = {LnPara}, !.save_ok = FALSE],
     [Healthy EXCEPT !.rejects = {<<"B">>}],
     [Healthy EXCEPT !.img = "missing"],
     [Healthy EXCEPT !.img = "missing", !.save_ok = FALSE]}
FileEnvs ==
    ContentEnvs \cup
    {[Healthy EXCEPT !.template = "missing"],
     [Healthy EXCEPT !.template = "missing", !.save_ok = FALSE],
     [Healthy EXCEPT !.input = "missing"],
     [Healthy EXCEPT !.input = "unreadable"]}
DeckEnvs ==
    {Healthy,
     [Healthy EXCEPT !.verbose = FALSE],
     [Healthy EXCEPT !.save_ok = FALSE],
     [Healthy EXCEPT !.rejects = {LnPara}],
     [Healthy EXCEPT !.img = "missing"],
     [Healthy EXCEPT !.img = "broken"],
     [Healthy EXCEPT !.img = "nopil"],
     [Healthy EXCEPT !.img = "tall"],
     [Healthy EXCEPT !.chart_ok = FALSE]}

\* the elements of the decks handed to generate_pptx, by name
DeckElement(name) ==
    IF name = "para" THEN ContentElement("PARAGRAPH", <<"x">>, EmptyDict)
    ELSE IF name = "list"
    THEN ContentElement("BULLET_LIST",
                        [k \in 1..BigListItems |->
                            [text |-> <<"x">>, indent |-> 0]],
                        EmptyDict)
    ELSE IF name = "code"
    THEN ContentElement("CODE_BLOCK",
                        join([k \in 1..BigCodeLines |-> <<"x">>], NL),
                        [language |-> <<>>])
    ELSE IF name = "table"
    THEN ContentElement("TABLE",
                        [headers |-> <<LnPara, LnPara>>,
                         rows |-> << <<LnPara, LnPara>> >>],
                        EmptyDict)
    ELSE ContentElement("IMAGE", <<"b">>, [alt_text |-> <<"a">>])
DeckElementNames == {"para", "list", "code", "table", "image"}
DeckLayouts == {"title", "content", "two_column", "image", "chart"}

\* a deck of one slide with the given layout hint and elements
DeckOfOne(layout, names) ==
    << [title |-> <<"T">>,
        subtitle |-> IF layout = "title" THEN <<"x">> ELSE <<>>,
        elements |-> [k \in 1..Len(names) |-> DeckElement(names[k])],
        layout_hint |-> layout, notes |-> <<>>] >>

(***************************************************************************)
(* State.                                                                  *)
(***************************************************************************)
VARIABLES
    markdown_text,  \* the argument of parse()
    lines,          \* local of parse(): markdown_text.split('\n')
    i,              \* local of parse(): the scan index, 0-based
    pc,             \* position in parse(): ready, scan, layouts, return, done
    run,            \* number of parse() calls started on this instance
    heap,           \* the SlideData objects, by identity
    lists,          \* the list objects that self.slides has been bound to
    wlists,         \* the list objects that self.warnings has been bound to
    slides,         \* self.slides: an index of lists
    current_slide,  \* self.current_slide: an index of heap, or None
    warnings,       \* self.warnings: an index of wlists
    blocks,         \* history: the block handled by each scan iteration
    origin,         \* history: what created each SlideData (h1, h2, lazy)
    esrc,           \* history: per SlideData, the line its elements came from
    returns,        \* history: what each finished parse() handed back
    entry,          \* the entry point called, "parse" for parse() itself
    env,            \* the rendering backend and the file system
    cpc,            \* position in the entry point: idle, call, parse,
                    \* generate, returned, raised
    cwarnings,      \* local of the entry point: warnings
    result,         \* what the entry point returned: success, warnings
    deck_in,        \* the argument of generate(): slides
    gpc,            \* position in generate(): idle, loop, done, raised
    gi,             \* local of generate(): slides handled by the loop
    prs,            \* self.prs: the slides of the presentation
    gen_warnings,   \* the generator's self.warnings
    gen_success,    \* what generate() returned
    log,            \* history: progress calls, rendering steps, the save
    placed,         \* history: the elements handed to a renderer
    skills,         \* the skill dicts handed to check_updates, by identity
    futures,        \* the tasks of the worker pool, in submission order
    results,        \* local of check_updates: results, indices of skills
    upc             \* position in check_updates: idle, start, submit,
                    \* collect, returned

vars ==
    <<markdown_text, lines, i, pc, run, heap, lists, wlists, slides,
      current_slide, warnings, blocks, origin, esrc, returns>>

Mem ==
    [heap |-> heap, lists |-> lists, wlists |-> wlists, slides |-> slides,
     current_slide |-> current_slide, warnings |-> warnings]

Store(m) ==
    /\ heap' = m.heap
    /\ lists' = m.lists
    /\ wlists' = m.wlists
    /\ slides' = m.slides
    /\ current_slide' = m.current_slide
    /\ warnings' = m.warnings

\* the deck a list object holds, by value
DeckOf(h, ls, ref) == [k \in 1..Len(ls[ref]) |-> h[ls[ref][k]]]

\* MarkdownParser.__init__ on a fresh instance          (lines 48-51)
gvars ==
    <<entry, env, cpc, cwarnings, result, deck_in, gpc, gi, prs,
      gen_warnings, gen_success, log, placed>>

allvars == <<vars, gvars>>

uvars == <<skills, futures, results, upc>>

\* no update check is running
UpdIdle ==
    /\ skills = <<>>
    /\ futures = <<>>
    /\ results = <<>>
    /\ upc = "idle"

\* MarkdownParser.__init__                                 (lines 48-51)
Constructed ==
    /\ lines = <<>>
    /\ i = 0
    /\ pc = "ready"
    /\ run = 0
    /\ heap = <<>>
    /\ lists = << <<>> >>
    /\ wlists = << <<>> >>
    /\ slides = 1
    /\ current_slide = None
    /\ warnings = 1
    /\ blocks = <<>>
    /\ origin = <<>>
    /\ esrc = <<>>
    /\ returns = <<>>

\* a MarkdownParser on its own, with no entry point of md_to_pptx.py called
Init ==
    /\ markdown_text \in {join(d, NL) : d \in Docs}
    /\ Constructed
    /\ entry = "parse"
    /\ env = Healthy
    /\ cpc = "idle"
    /\ cwarnings = <<>>
    /\ result = [success |-> FALSE, warnings |-> <<>>]
    /\ deck_in = <<>>
    /\ gpc = "idle"
    /\ gi = 0
    /\ prs = <<>>
    /\ gen_warnings = <<>>
    /\ gen_success = FALSE
    /\ log = <<>>
    /\ placed = <<>>
    /\ UpdIdle

\* the resets without self.current_slide = None
ResetParser_keeps_current(m) ==
    [m EXCEPT !.lists = Append(@, <<>>),
              !.slides = Len(m.lists) + 1,
              !.wlists = Append(@, <<>>),
              !.warnings = Len(m.wlists) + 1]

\* the resets at the head of parse(): three new objects (lines 63-65)
ResetParser(m) ==
    [m EXCEPT !.lists = Append(@, <<>>),
              !.slides = Len(m.lists) + 1,
              !.current_slide = None,
              !.wlists = Append(@, <<>>),
              !.warnings = Len(m.wlists) + 1]

\* parse(), up to the loop                              (lines 63-68)
ParseStart ==
    /\ pc \in {"ready", "done"}
    /\ run < MaxRuns
    /\ Store(ResetParser(Mem))
    /\ lines' = split(markdown_text, NL)
    /\ i' = 0
    /\ pc' = "scan"
    /\ run' = run + 1
    /\ blocks' = <<>>
    /\ UNCHANGED <<markdown_text, origin, esrc, returns>>
    /\ UNCHANGED <<gvars, uvars>>

\* the chain of tests that takes every remaining line as a paragraph
Classify_no_blank_test(ls, k) ==
    LET line == At(ls, k)
    IN  IF IsFence(line) THEN "code"
        ELSE IF /\ "|" \in Range(line)
                /\ k + 1 < Len(ls)
                /\ "|" \in Range(At(ls, k + 1))
                /\ SeparatorMatch(At(ls, k + 1)) THEN "table"
        ELSE IF HeadingMatch(line) THEN "heading"
        ELSE IF ImgMatch(line) THEN "image"
        ELSE IF BulletEntry(line) THEN "bullet"
        ELSE IF NumberedEntry(line) THEN "numbered"
        ELSE "paragraph"

\* the chain of tests with the heading test ahead of the table test
Classify_heading_first(ls, k) ==
    LET line == At(ls, k)
    IN  IF IsFence(line) THEN "code"
        ELSE IF HeadingMatch(line) THEN "heading"
        ELSE IF /\ "|" \in Range(line)
                /\ k + 1 < Len(ls)
                /\ "|" \in Range(At(ls, k + 1))
                /\ SeparatorMatch(At(ls, k + 1)) THEN "table"
        ELSE IF ImgMatch(line) THEN "image"
        ELSE IF BulletEntry(line) THEN "bullet"
        ELSE IF NumberedEntry(line) THEN "numbered"
        ELSE IF strip(line) # <<>> THEN "paragraph"
        ELSE "blank"

\* the ordered chain of tests of one loop iteration     (lines 70-116)
Classify(ls, k) ==
    LET line == At(ls, k)
    IN  IF IsFence(line) THEN "code"
        ELSE IF /\ "|" \in Range(line)
                /\ k + 1 < Len(ls)
                /\ "|" \in Range(At(ls, k + 1))
                /\ SeparatorMatch(At(ls, k + 1)) THEN "table"
        ELSE IF HeadingMatch(line) THEN "heading"
        ELSE IF ImgMatch(line) THEN "image"
        ELSE IF BulletEntry(line) THEN "bullet"
        ELSE IF NumberedEntry(line) THEN "numbered"
        ELSE IF strip(line) # <<>> THEN "paragraph"
        ELSE "blank"

\* the loop is entered with a line of this kind         (line 70)
Scanning(kind) ==
    /\ pc = "scan"
    /\ i < Len(lines)
    /\ Len(blocks) < Len(lines) + MaxExtraIters
    /\ Classify(lines, i) = kind

\* one loop iteration ends with memory m and index k; tag names what a
\* SlideData created by it was created by
Resume(kind, tag, m, k) ==
    /\ Store(m)
    /\ i' = k
    /\ blocks' = Append(blocks, [at |-> i, kind |-> kind])
    /\ origin' = IF Len(m.heap) > Len(heap) THEN Append(origin, tag)
                 ELSE origin
    /\ esrc' = [id \in 1..Len(m.heap) |->
                   LET old == IF id <= Len(heap) THEN heap[id].elements
                              ELSE <<>>
                       src == IF id <= Len(heap) THEN esrc[id] ELSE <<>>
                   IN  IF Len(m.heap[id].elements) > Len(old)
                       THEN Append(src, i) ELSE src]
    /\ UNCHANGED <<markdown_text, lines, pc, run, returns>>
    /\ UNCHANGED <<gvars, uvars>>

\* lines 73-76
CodeBlockStep ==
    /\ Scanning("code")
    /\ LET r == _parse_code_block(Mem, lines, i)
       IN  Resume("code", "lazy", r.m, r.i)

\* lines 78-82
TableStep ==
    /\ Scanning("table")
    /\ LET r == _parse_table(Mem, lines, i)
       IN  Resume("table", "lazy", r.m, r.i)

\* lines 84-91
HeadingStep ==
    /\ Scanning("heading")
    /\ LET level == HeadingLevel(At(lines, i))
           text == HeadingText(At(lines, i))
       IN  Resume("heading",
                  IF level = 1 THEN "h1" ELSE IF level = 2 THEN "h2"
                  ELSE "lazy",
                  _handle_heading(Mem, level, text), i + 1)

\* lines 93-100
ImageStep ==
    /\ Scanning("image")
    /\ LET alt_text == ImgAlt(At(lines, i))
           img_path == ImgPath(At(lines, i))
       IN  Resume("image", "lazy", _add_image(Mem, img_path, alt_text), i + 1)

\* lines 102-105
BulletListStep ==
    /\ Scanning("bullet")
    /\ LET r == _parse_bullet_list(Mem, lines, i)
       IN  Resume("bullet", "lazy", r.m, r.i)

\* lines 107-110
NumberedListStep ==
    /\ Scanning("numbered")
    /\ LET r == _parse_numbered_list(Mem, lines, i)
       IN  Resume("numbered", "lazy", r.m, r.i)

\* lines 112-116, non-blank line
ParagraphStep ==
    /\ Scanning("paragraph")
    /\ Resume("paragraph", "lazy",
              _add_paragraph(Mem, strip(At(lines, i))), i + 1)

\* lines 112-116, blank line
BlankStep ==
    /\ Scanning("blank")
    /\ Resume("blank", "lazy", Mem, i + 1)

\* the last slide is appended                           (lines 118-120)
FinalizeLast(m) ==
    IF m.current_slide # None THEN AppendCurrentSlide(m) ELSE m

Finalize ==
    /\ pc = "scan"
    /\ ~(i < Len(lines))
    /\ Store(FinalizeLast(Mem))
    /\ pc' = "layouts"
    /\ UNCHANGED <<markdown_text, lines, i, run, blocks, origin, esrc, returns>>
    /\ UNCHANGED <<gvars, uvars>>

\* lines 122-123
DetermineLayouts ==
    /\ pc = "layouts"
    /\ Store(_determine_layouts(Mem))
    /\ pc' = "return"
    /\ UNCHANGED <<markdown_text, lines, i, run, blocks, origin, esrc, returns>>
    /\ UNCHANGED <<gvars, uvars>>

\* return self.slides; the caller reads get_warnings()
\*                                             (lines 125, 334-336, 350-351)
Return ==
    /\ pc = "return"
    /\ pc' = "done"
    /\ returns' = Append(returns,
           [slides |-> slides, warnings |-> warnings,
            deck |-> DeckOf(heap, lists, slides),
            warns |-> wlists[warnings]])
    /\ UNCHANGED <<markdown_text, lines, i, run, heap, lists, wlists, slides,
                   current_slide, warnings, blocks, origin, esrc>>
    /\ UNCHANGED <<gvars, uvars>>

Next ==
    \/ ParseStart
    \/ CodeBlockStep
    \/ TableStep
    \/ HeadingStep
    \/ ImageStep
    \/ BulletListStep
    \/ NumberedListStep
    \/ ParagraphStep
    \/ BlankStep
    \/ Finalize
    \/ DetermineLayouts
    \/ Return

Spec == Init /\ [][Next]_vars

(***************************************************************************)
(* The entry points: convert_md_to_pptx and generate_from_content of       *)
(* md_to_pptx.py, and generate_pptx of pptx_generator.py.                  *)
(***************************************************************************)
\* the memory of the generator
Gen ==
    [prs |-> prs, warnings |-> gen_warnings, log |-> log, placed |-> placed,
     exc |-> NoExc]

GenInit ==
    /\ Constructed
    /\ cwarnings = <<>>
    /\ result = [success |-> FALSE, warnings |-> <<>>]
    /\ gpc = "idle"
    /\ gi = 0
    /\ prs = <<>>
    /\ gen_warnings = <<>>
    /\ gen_success = FALSE
    /\ log = <<>>
    /\ placed = <<>>
    /\ UpdIdle
    /\ \/ /\ entry = "convert_md_to_pptx"
          /\ env \in FileEnvs
          /\ markdown_text \in {join(d, NL) : d \in PipeDocs}
          /\ deck_in = <<>>
          /\ cpc = "call"
       \/ /\ entry = "generate_from_content"
          /\ env \in ContentEnvs
          /\ markdown_text \in {join(d, NL) : d \in PipeDocs}
          /\ deck_in = <<>>
          /\ cpc = "call"
       \/ /\ entry = "generate_pptx"
          /\ env \in DeckEnvs
          /\ markdown_text = <<>>
          /\ \E layout \in DeckLayouts,
                names \in SeqsBetween(DeckElementNames, 0, MaxElems) :
                 deck_in = DeckOfOne(layout, names)
          /\ cpc = "generate"

\* convert_md_to_pptx up to the call of parse_markdown  (md_to_pptx 77-96)
ConvertStart ==
    /\ cpc = "call"
    /\ entry = "convert_md_to_pptx"
    /\ IF env.input = "missing"
       THEN /\ cpc' = "returned"
            /\ result' = [success |-> FALSE,
                          warnings |-> << <<"Input file not found: ">> >>]
       ELSE IF env.input = "unreadable"
       THEN /\ cpc' = "returned"
            /\ result' = [success |-> FALSE,
                          warnings |-> << <<"Failed to read input file: ">> >>]
       ELSE /\ cpc' = "parse"
            /\ result' = result
    /\ cwarnings' = <<>>
    /\ UNCHANGED uvars
    /\ UNCHANGED <<vars, entry, env, deck_in, gpc, gi, prs, gen_warnings,
                   gen_success, log, placed>>

\* generate_from_content up to the call of parse_markdown  (md_to_pptx 158)
FromContentStart ==
    /\ cpc = "call"
    /\ entry = "generate_from_content"
    /\ cpc' = "parse"
    /\ cwarnings' = <<>>
    /\ UNCHANGED uvars
    /\ UNCHANGED <<vars, entry, env, result, deck_in, gpc, gi, prs,
                   gen_warnings, gen_success, log, placed>>

\* parse_markdown: a new MarkdownParser starts parse()   (md_parser 349-350)
ParseMarkdown ==
    /\ cpc = "parse"
    /\ pc = "ready"
    /\ ParseStart

\* from the return of parse_markdown to the call of generate_pptx
\*                                         (md_to_pptx 99-120, 161-176)
AfterParse ==
    /\ cpc = "parse"
    /\ pc = "done"
    /\ LET parsed == DeckOf(heap, lists, slides)
           parse_warnings == wlists[warnings]
           extended == cwarnings \o parse_warnings
       IN  IF parsed = <<>>
           THEN /\ cpc' = "returned"
                /\ result' =
                       [success |-> FALSE,
                        warnings |->
                            IF entry = "convert_md_to_pptx"
                            THEN << <<"No slides generated from Markdown content">> >>
                            ELSE << <<"No slides generated from content">> >>]
                /\ cwarnings' = extended
                /\ deck_in' = deck_in
           ELSE /\ cpc' = "generate"
                /\ result' = result
                /\ cwarnings' =
                       IF entry = "convert_md_to_pptx"
                          /\ env.template = "missing"
                       THEN Append(extended,
                                   <<"Custom template not found: ">>)
                       ELSE extended
                /\ deck_in' = parsed
    /\ UNCHANGED uvars
    /\ UNCHANGED <<vars, entry, env, gpc, gi, prs, gen_warnings,
                   gen_success, log, placed>>

\* generate_pptx and generate up to the loop  (pptx_generator 719-721, 164-174)
GenerateStart ==
    /\ cpc = "generate"
    /\ gpc = "idle"
    /\ gpc' = "loop"
    /\ gi' = 0
    /\ prs' = <<>>
    /\ gen_warnings' = <<>>
    /\ log' = <<>>
    /\ placed' = <<>>
    /\ UNCHANGED uvars
    /\ UNCHANGED <<vars, entry, env, cpc, cwarnings, result, deck_in,
                   gen_success>>

\* one iteration of the loop of generate; an exception that leaves the
\* except clause leaves generate, generate_pptx and the entry point
\*                                                 (pptx_generator 176-193)
RenderSlide ==
    /\ gpc = "loop"
    /\ gi < Len(deck_in)
    /\ \E g \in {LoopBody(Gen, env, deck_in[gi + 1], gi + 1, Len(deck_in))} :
           /\ prs' = g.prs
           /\ gen_warnings' = g.warnings
           /\ log' = g.log
           /\ placed' = g.placed
           /\ gpc' = IF Raised(g) THEN "raised" ELSE "loop"
           /\ cpc' = IF Raised(g) THEN "raised" ELSE cpc
    /\ gi' = gi + 1
    /\ UNCHANGED uvars
    /\ UNCHANGED <<vars, entry, env, cwarnings, result, deck_in, gen_success>>

\* the end of generate                             (pptx_generator 195-202)
Save ==
    /\ gpc = "loop"
    /\ ~(gi < Len(deck_in))
    /\ \E r \in {SavePresentation(Gen, env, Len(deck_in))} :
           /\ gen_warnings' = r.g.warnings
           /\ log' = r.g.log
           /\ gen_success' = r.success
    /\ gpc' = "done"
    /\ UNCHANGED uvars
    /\ UNCHANGED <<vars, entry, env, cpc, cwarnings, result, deck_in, gi, prs,
                   placed>>

\* the return of generate_pptx and of the entry point
\*                     (pptx_generator 723-724; md_to_pptx 128-133, 184-186)
ReturnResult ==
    /\ cpc = "generate"
    /\ gpc = "done"
    /\ cpc' = "returned"
    /\ cwarnings' = IF entry = "generate_pptx" THEN cwarnings
                    ELSE cwarnings \o gen_warnings
    /\ result' = [success |-> gen_success,
                  warnings |-> IF entry = "generate_pptx" THEN gen_warnings
                               ELSE cwarnings \o gen_warnings]
    /\ UNCHANGED uvars
    /\ UNCHANGED <<vars, entry, env, deck_in, gpc, gi, prs, gen_warnings,
                   gen_success, log, placed>>

GenNext ==
    \/ ConvertStart
    \/ FromContentStart
    \/ ParseMarkdown
    \/ CodeBlockStep
    \/ TableStep
    \/ HeadingStep
    \/ ImageStep
    \/ BulletListStep
    \/ NumberedListStep
    \/ ParagraphStep
    \/ BlankStep
    \/ Finalize
    \/ DetermineLayouts
    \/ Return
    \/ AfterParse
    \/ GenerateStart
    \/ RenderSlide
    \/ Save
    \/ ReturnResult

GenSpec == GenInit /\ [][GenNext]_allvars

(***************************************************************************)
(* The update check: check_updates of scripts/check_updates.py and of      *)
(* skills/skill-manager/scripts/scan_and_check.py.  The skill dicts are    *)
(* objects the function changes in place; a worker pool of max_workers     *)
(* threads runs one get_remote_hash task per managed skill.                *)
(***************************************************************************)
\* a dict key that is not there, and the None of an Optional[str]
Absent == "<absent>"

\* Python's truth value of an optional string
Falsy(x) == x \in {Absent, ""}

MaxSkills == 3
MaxWorkers == 2

\* the skills scan_skills can hand over: unmanaged, managed with a local
\* hash, managed without one
SkillVocab ==
    {[source_url |-> "", local_hash |-> "a", status |-> Absent,
      remote_hash |-> Absent, message |-> Absent],
     [source_url |-> "u", local_hash |-> "a", status |-> Absent,
      remote_hash |-> Absent, message |-> Absent],
     [source_url |-> "u", local_hash |-> "", status |-> Absent,
      remote_hash |-> Absent, message |-> Absent]}

\* what subprocess.run can do on git ls-remote: the hash the skill has, a
\* newer one, a failure of git, only white space on stdout, and a timeout
GitAnswers ==
    {[exc |-> "", returncode |-> 0, stdout |-> <<"a", "\t", "HEAD", NL>>],
     [exc |-> "", returncode |-> 0, stdout |-> <<"b", "\t", "HEAD", NL>>],
     [exc |-> "", returncode |-> 128, stdout |-> <<>>],
     [exc |-> "", returncode |-> 0, stdout |-> <<NL>>],
     [exc |-> "TimeoutExpired", returncode |-> 0, stdout |-> <<>>]}

\* str.split() without a separator: the runs between white space
split_whitespace(pieces) ==
    SelectSeq(pieces, LAMBDA c : c \notin {" ", "\t", NL})

\* get_remote_hash                  (check_updates.py 62-75,
\*                                   scan_and_check.py 92-107)
get_remote_hash(answer) ==
    IF answer.exc # "" THEN Absent
    ELSE IF answer.returncode = 0 /\ answer.stdout # <<>>
         THEN IF split_whitespace(answer.stdout) = <<>>
              THEN Absent                    \* IndexError, caught
              ELSE split_whitespace(answer.stdout)[1]
         ELSE Absent

\* managed = [s for s in skills if s.get('source_url')], as indices
managed(sk) ==
    SelectSeq([k \in 1..Len(sk) |-> k], LAMBDA k : ~Falsy(sk[k].source_url))

\* unmanaged = [s for s in skills if not s.get('source_url')]
unmanaged(sk) ==
    SelectSeq([k \in 1..Len(sk) |-> k], LAMBDA k : Falsy(sk[k].source_url))

\* the body of the loop over unmanaged
MarkUnmanaged(skill, variant) ==
    [skill EXCEPT !.status = "unmanaged",
                  !.message = IF variant = "scan_and_check"
                              THEN "No source_url configured" ELSE @,
                  !.remote_hash = ""]

\* the if/elif chain of the loop over as_completed
StatusOf(remote, local_hash) ==
    IF Falsy(remote) THEN "error"
    ELSE IF Falsy(local_hash) THEN "unknown"
    ELSE IF remote # local_hash THEN "outdated"
    ELSE "current"

MessageOf(status) ==
    CASE status = "error" -> "Could not reach remote repository"
      [] status = "unknown" -> "No local hash recorded"
      [] status = "outdated" -> "New commits available"
      [] status = "current" -> "Up to date"

\* the body of the loop over as_completed, for the skill of the future
MarkManaged(skill, remote, variant) ==
    [skill EXCEPT !.remote_hash = IF Falsy(remote) THEN "" ELSE remote,
                  !.status = StatusOf(remote, skill.local_hash),
                  !.message = IF variant = "scan_and_check"
                              THEN MessageOf(StatusOf(remote,
                                                      skill.local_hash))
                              ELSE @]

\* the skill of the next future handed out, whichever future that is
future_map_by_arrival(fs, t) ==
    fs[Cardinality({x \in DOMAIN fs : fs[x].collected}) + 1].skill

\* future_map[future]
future_map(fs, t) == fs[t].skill

\* a call of check_updates on fresh skill dicts
UpdInit ==
    /\ markdown_text = <<>>
    /\ Constructed
    /\ entry \in {"check_updates", "scan_and_check"}
    /\ env = Healthy
    /\ cpc = "idle"
    /\ cwarnings = <<>>
    /\ result = [success |-> FALSE, warnings |-> <<>>]
    /\ deck_in = <<>>
    /\ gpc = "idle"
    /\ gi = 0
    /\ prs = <<>>
    /\ gen_warnings = <<>>
    /\ gen_success = FALSE
    /\ log = <<>>
    /\ placed = <<>>
    /\ skills \in SeqsBetween(SkillVocab, 0, MaxSkills)
    /\ futures = <<>>
    /\ results = <<>>
    /\ upc = "start"

\* the partition and the loop over unmanaged  (check_updates.py 115-123,
\*                                             scan_and_check.py 187-201)
CheckStart ==
    /\ upc = "start"
    /\ skills' = [k \in 1..Len(skills) |->
                    IF Falsy(skills[k].source_url)
                    THEN MarkUnmanaged(skills[k], entry) ELSE skills[k]]
    /\ results' = unmanaged(skills)
    /\ upc' = IF managed(skills) = <<>> THEN "returned" ELSE "submit"
    /\ UNCHANGED futures
    /\ UNCHANGED <<vars, gvars>>

\* executor.submit for the next managed skill, in the dict comprehension
Submit ==
    /\ upc = "submit"
    /\ futures' = Append(futures,
                         [skill |-> managed(skills)[Len(futures) + 1],
                          state |-> "pending", value |-> Absent,
                          answer |-> Absent, collected |-> FALSE])
    /\ upc' = IF Len(futures) + 1 = Len(managed(skills))
              THEN "collect" ELSE "submit"
    /\ UNCHANGED <<skills, results>>
    /\ UNCHANGED <<vars, gvars>>

Running == {t \in DOMAIN futures : futures[t].state = "running"}
Pending == {t \in DOMAIN futures : futures[t].state = "pending"}

\* a free worker of the pool takes the oldest task of the queue
WorkerTakes ==
    /\ Pending # {}
    /\ Cardinality(Running) < MaxWorkers
    /\ \E t \in Pending :
          /\ \A o \in Pending : t <= o
          /\ futures' = [futures EXCEPT ![t].state = "running"]
    /\ UNCHANGED <<skills, results, upc>>
    /\ UNCHANGED <<vars, gvars>>

\* a worker runs get_remote_hash to its end and sets the future's result
WorkerFinishes ==
    /\ \E t \in Running, answer \in GitAnswers :
          futures' = [futures EXCEPT ![t].state = "finished",
                                     ![t].answer = answer,
                                     ![t].value = get_remote_hash(answer)]
    /\ UNCHANGED <<skills, results, upc>>
    /\ UNCHANGED <<vars, gvars>>

\* one iteration of the loop over as_completed: the futures that are
\* finished come in no fixed order
Collect ==
    /\ upc = "collect"
    /\ \E t \in DOMAIN futures :
          /\ futures[t].state = "finished"
          /\ ~futures[t].collected
          /\ \E skill \in {future_map(futures, t)} :
                /\ skills' = [skills EXCEPT ![skill] =
                                 MarkManaged(@, futures[t].value, entry)]
                /\ results' = Append(results, skill)
          /\ futures' = [futures EXCEPT ![t].collected = TRUE]
    /\ UNCHANGED upc
    /\ UNCHANGED <<vars, gvars>>

\* the loop is over, the pool shuts down, return results
CheckReturn ==
    /\ upc = "collect"
    /\ \A t \in DOMAIN futures : futures[t].collected
    /\ upc' = "returned"
    /\ UNCHANGED <<skills, futures, results>>
    /\ UNCHANGED <<vars, gvars>>

UpdNext ==
    \/ CheckStart
    \/ Submit
    \/ WorkerTakes
    \/ WorkerFinishes
    \/ Collect
    \/ CheckReturn

UpdSpec == UpdInit /\ [][UpdNext]_uvars

(***************************************************************************)
(* Vocabulary of the properties.                                           *)
(***************************************************************************)
\* the deck and the warnings self holds
Deck == DeckOf(heap, lists, slides)
Warnings == wlists[warnings]
\* the SlideData objects of the deck, by identity
DeckIds == lists[slides]
Titles(deck) == [k \in 1..Len(deck) |-> deck[k].title]

\* the scan iterations that handled a level-1/2 heading
IsSlideHeading(b) ==
    b.kind = "heading" /\ HeadingLevel(At(lines, b.at)) <= 2
SlideHeadings == SelectSeq(blocks, IsSlideHeading)
\* a non-blank line was handled before the first level-1/2 heading
ContentFirst ==
    \E k \in 1..Len(blocks) :
        /\ blocks[k].kind # "blank"
        /\ \A j \in 1..k : ~IsSlideHeading(blocks[j])

\* the level-1/2 heading lines of the input, read line by line
IsHeadingLine(line) == HeadingMatch(line) /\ HeadingLevel(line) <= 2
HeadingLines == SelectSeq(lines, IsHeadingLine)

\* C1 (as claimed): when the input has a level-1/2 heading line, the returned
\* deck has exactly one slide per such line, in source order, titled by it.
C1_SlidePerHeadingLine ==
    (pc = "done" /\ HeadingLines # <<>>) =>
        Titles(Deck) = [k \in 1..Len(HeadingLines) |->
                           HeadingText(HeadingLines[k])]

\* C1 (amended): when at least one line is handled as a level-1/2 heading,
\* the returned deck is one slide per handled heading, in source order and
\* titled by its text, preceded by exactly one 'Untitled' slide when, and
\* only when, a non-blank line was handled before the first such heading.
C1_SlidePerHandledHeading ==
    (pc = "done" /\ SlideHeadings # <<>>) =>
        Titles(Deck) =
            (IF ContentFirst THEN <<Untitled>> ELSE <<>>) \o
            [k \in 1..Len(SlideHeadings) |->
                HeadingText(At(lines, SlideHeadings[k].at))]

C1_Witness ==
    pc = "done" /\ Len(SlideHeadings) >= 2 /\ ContentFirst /\ Len(Deck) = 3

\* C2 (as claimed): every iteration of the scan loop resumes at an index
\* strictly greater than the one it was entered at, so parse terminates.
C2_ScanAdvances == [][(pc = "scan" /\ i < Len(lines)) => i' > i]_vars

\* the ordered layout decision, stated on the set of element types
DecidedLayout(elements) ==
    LET types == {elements[k].type : k \in 1..Len(elements)}
        n == Len(elements)
    IN  CASE "CHART_DATA" \in types -> "chart"
          [] "CHART_DATA" \notin types /\ "IMAGE" \in types /\ n <= 3 ->
                "image"
          [] "CHART_DATA" \notin types /\ ~("IMAGE" \in types /\ n <= 3)
             /\ types \cap {"TABLE", "CODE_BLOCK"} # {} -> "content"
          [] types \cap {"CHART_DATA", "TABLE", "CODE_BLOCK"} = {}
             /\ ~("IMAGE" \in types /\ n <= 3) /\ n > 4 -> "two_column"
          [] OTHER -> "content"

\* C3: in the returned deck a slide has layout_hint 'title' exactly when a
\* level-1 heading opened it; every other slide has the ordered decision
\* applied to its final element list.
C3_LayoutOfFinalElements ==
    pc = "done" =>
        \A k \in 1..Len(DeckIds) :
            LET id == DeckIds[k]
            IN  /\ heap[id].layout_hint = "title" <=> origin[id] = "h1"
                /\ origin[id] # "h1" =>
                       heap[id].layout_hint = DecidedLayout(heap[id].elements)

C3_Witness ==
    /\ pc = "done"
    /\ \E k \in 1..Len(DeckIds) :
          /\ origin[DeckIds[k]] = "h2"
          /\ HasType(heap[DeckIds[k]].elements, "IMAGE")
          /\ HasType(heap[DeckIds[k]].elements, "CODE_BLOCK")
          /\ heap[DeckIds[k]].layout_hint = "image"

\* texts of the end-to-end scenario
TxDemo == <<"D", "e", "m", "o">>
TxPoints == <<"P", "o", "i", "n", "t", "s">>
TxData == <<"D", "a", "t", "a">>
TxOne == <<"O", "n", "e">>
TxTwo == <<"T", "w", "o">>

\* C4: the end-to-end scenario yields exactly the three slides of the
\* specification and no warning.
C4_DemoScenario ==
    (pc = "done" /\ lines = DemoDoc) =>
        /\ Len(Deck) = 3
        /\ Deck[1].title = TxDemo
        /\ Deck[1].layout_hint = "title"
        /\ Deck[1].subtitle = Demo3
        /\ Deck[1].elements = <<>>
        /\ Deck[2].title = TxPoints
        /\ Len(Deck[2].elements) = 1
        /\ Deck[2].elements[1].type = "BULLET_LIST"
        /\ Deck[2].elements[1].content =
               <<[text |-> TxOne, indent |-> 0], [text |-> TxTwo, indent |-> 0]>>
        /\ Deck[2].layout_hint = "content"
        /\ Deck[3].title = TxData
        /\ Len(Deck[3].elements) = 1
        /\ Deck[3].elements[1].type = "TABLE"
        /\ Deck[3].elements[1].content =
               [headers |-> << <<"A">>, <<"B">> >>,
                rows |-> << << <<"1">>, <<"2">> >> >>]
        /\ Deck[3].layout_hint = "content"
        /\ Warnings = <<>>

C4_Witness == pc = "done" /\ lines = DemoDoc /\ Len(returns) = 1

\* the image references handled so far whose path is not local
C5_NonLocalPath(path) ==
    \E n \in 1..Len(path) :
        SubSeq(path, 1, n) \in
            {<<"h", "t", "t", "p", ":", "/", "/">>,
             <<"h", "t", "t", "p", "s", ":", "/", "/">>,
             <<"d", "a", "t", "a", ":">>}
C5_NonLocalRefs ==
    {k \in 1..Len(blocks) :
        /\ blocks[k].kind = "image"
        /\ C5_NonLocalPath(ImgPath(At(lines, blocks[k].at)))}

\* C5: at every point of a parse, and so in what it returns, there is one
\* warning per image reference handled with a non-local path, and no IMAGE
\* element of any slide has such a path.
C5_NonLocalImagesWarned ==
    /\ Len(Warnings) = Cardinality(C5_NonLocalRefs)
    /\ \A id \in 1..Len(heap) :
          \A k \in 1..Len(heap[id].elements) :
              heap[id].elements[k].type = "IMAGE" =>
                  ~C5_NonLocalPath(heap[id].elements[k].content)

C5_Witness ==
    /\ pc = "done"
    /\ Len(Warnings) = 2
    /\ \E k \in 1..Len(Deck) : HasType(Deck[k].elements, "IMAGE")

\* equality of elements, slides and decks, comparing a payload only when
\* the two elements have the same type
SameElement(e, f) ==
    e.type = f.type /\ e.content = f.content /\ e.metadata = f.metadata
SameElements(es, fs) ==
    Len(es) = Len(fs) /\ \A k \in 1..Len(es) : SameElement(es[k], fs[k])
SameSlide(a, b) ==
    /\ a.title = b.title
    /\ a.subtitle = b.subtitle
    /\ a.layout_hint = b.layout_hint
    /\ a.notes = b.notes
    /\ SameElements(a.elements, b.elements)
SameDeck(a, b) ==
    Len(a) = Len(b) /\ \A k \in 1..Len(a) : SameSlide(a[k], b[k])

FiveParagraphs(slide) ==
    /\ Len(slide.elements) = 5
    /\ \A k \in 1..5 : slide.elements[k].type = "PARAGRAPH"

\* C6 (as claimed): every slide of the returned deck whose elements are
\* exactly 5 PARAGRAPH elements has layout_hint two_column, whichever heading
\* level opened it.
C6_FiveParagraphsTwoColumn ==
    pc = "done" =>
        \A k \in 1..Len(Deck) :
            FiveParagraphs(Deck[k]) => Deck[k].layout_hint = "two_column"

\* C6 (amended): every slide of the returned deck whose elements are exactly
\* 5 PARAGRAPH elements has layout_hint two_column unless a level-1 heading
\* opened it, and then it keeps layout_hint title.
C6_FiveParagraphsTwoColumnUnlessTitle ==
    pc = "done" =>
        \A k \in 1..Len(DeckIds) :
            FiveParagraphs(heap[DeckIds[k]]) =>
                heap[DeckIds[k]].layout_hint =
                    IF origin[DeckIds[k]] = "h1" THEN "title"
                    ELSE "two_column"

C6_Witness ==
    /\ pc = "done"
    /\ \E k \in 1..Len(DeckIds) :
          /\ FiveParagraphs(heap[DeckIds[k]])
          /\ origin[DeckIds[k]] = "h2"
          /\ heap[DeckIds[k]].layout_hint = "two_column"

\* a slide has a subtitle only if its layout_hint is 'title'
SubtitleOnlyOnTitle ==
    \A id \in 1..Len(heap) :
        heap[id].subtitle # <<>> => heap[id].layout_hint = "title"

\* a step gives a slide a subtitle only by a paragraph handled while the
\* slide has neither subtitle nor elements; a paragraph handled once the
\* subtitle is set becomes a PARAGRAPH element
SubtitleSetOnce ==
    /\ Len(heap') >= Len(heap)
    /\ \A id \in 1..Len(heap') :
          IF id <= Len(heap)
          THEN heap'[id].subtitle # heap[id].subtitle =>
                   /\ pc = "scan" /\ i < Len(lines)
                   /\ Classify(lines, i) = "paragraph"
                   /\ id = current_slide
                   /\ heap[id].subtitle = <<>>
                   /\ heap[id].elements = <<>>
                   /\ heap'[id].subtitle = strip(At(lines, i))
          ELSE heap'[id].subtitle = <<>>
    /\ ( /\ pc = "scan" /\ i < Len(lines)
         /\ Classify(lines, i) = "paragraph"
         /\ current_slide # None
         /\ heap[current_slide].subtitle # <<>> ) =>
           SameElements(heap'[current_slide].elements,
                        Append(heap[current_slide].elements,
                               ContentElement("PARAGRAPH",
                                              strip(At(lines, i)), EmptyDict)))

\* C7: in every parser state a slide has a non-empty subtitle only if its
\* layout_hint is 'title'; the subtitle is assigned only by a paragraph seen
\* while the slide's element list is empty, and once set no later line
\* changes it: later paragraphs become PARAGRAPH elements.
C7_SubtitleInvariant == []SubtitleOnlyOnTitle /\ [][SubtitleSetOnce]_vars

C7_Witness ==
    /\ pc = "done"
    /\ \E k \in 1..Len(Deck) :
          /\ Deck[k].subtitle # <<>>
          /\ HasType(Deck[k].elements, "PARAGRAPH")

\* the SlideData objects some deck holds
AppendedIds == UNION {Range(lists[k]) : k \in 1..Len(lists)}

\* C8 (as claimed): once a SlideData has been appended to the deck, no later
\* step changes any of its fields.
C8_AppendedNeverMutated ==
    [][\A id \in AppendedIds : SameSlide(heap'[id], heap[id])]_vars

\* C8 (amended): once a SlideData has been appended to the deck, no later
\* step changes its title, subtitle, elements or notes; its layout_hint is
\* changed only by the _determine_layouts pass run before parse returns, on
\* a slide of the deck being returned whose layout_hint is not 'title'.
C8_AppendedMutatedOnlyByLayoutPass ==
    [][\A id \in AppendedIds :
          /\ heap'[id].title = heap[id].title
          /\ heap'[id].subtitle = heap[id].subtitle
          /\ heap'[id].notes = heap[id].notes
          /\ SameElements(heap'[id].elements, heap[id].elements)
          /\ heap'[id].layout_hint # heap[id].layout_hint =>
                 /\ pc = "layouts"
                 /\ id \in Range(DeckIds)
                 /\ heap[id].layout_hint # "title"]_vars

C8_Witness ==
    /\ pc = "return"
    /\ Len(Deck) >= 2
    /\ Deck[1].layout_hint = "image"
    /\ Deck[1].elements # <<>>

\* the lines the elements of each slide came from are strictly increasing
ElementsInSourceOrder ==
    \A id \in 1..Len(heap) :
        /\ Len(esrc[id]) = Len(heap[id].elements)
        /\ \A a, b \in 1..Len(esrc[id]) : a < b => esrc[id][a] < esrc[id][b]

\* a step leaves the elements of every slide as they are, or appends to the
\* slide in progress
ElementsOnlyAppended ==
    \A id \in 1..Len(heap) :
        LET old == heap[id].elements
            new == heap'[id].elements
        IN  /\ Len(new) >= Len(old)
            /\ SameElements(SubSeq(new, 1, Len(old)), old)
            /\ Len(new) > Len(old) => id = current_slide'

\* C9: within every slide the elements are in source encounter order;
\* elements are only ever appended to the slide in progress, never inserted,
\* reordered or removed.
C9_ElementsInEncounterOrder ==
    []ElementsInSourceOrder /\ [][ElementsOnlyAppended]_vars

C9_Witness ==
    /\ pc = "done"
    /\ \E k \in 1..Len(Deck) :
          /\ Len(Deck[k].elements) = 3
          /\ Deck[k].elements[1].type = "IMAGE"
          /\ Deck[k].elements[2].type = "BULLET_LIST"
          /\ Deck[k].elements[3].type = "PARAGRAPH"

\* C10: every run of parse on one instance returns the deck and the warnings
\* the first run (a fresh parser) returned for the same text, and what a run
\* returned is never altered afterwards, also not by a later run.
C10_Deterministic ==
    \A k \in 1..Len(returns) :
        /\ SameDeck(returns[k].deck, returns[1].deck)
        /\ returns[k].warns = returns[1].warns
        /\ SameDeck(DeckOf(heap, lists, returns[k].slides), returns[k].deck)
        /\ wlists[returns[k].warnings] = returns[k].warns

C10_Witness ==
    /\ pc = "done"
    /\ Len(returns) = 2
    /\ returns[1].slides # returns[2].slides
    /\ Len(returns[2].deck) = 2
    /\ returns[2].warns # <<>>

(***************************************************************************)
(* Vocabulary of the properties of the generator.                          *)
(***************************************************************************)
\* the except clause of generate recorded a failure of slide n
Failed(n) ==
    \E k \in 1..Len(gen_warnings) :
        /\ gen_warnings[k][1] = "Error on slide "
        /\ gen_warnings[k][2] = ToString(n)

\* the slides of the presentation made for slide n of the deck
SlidesFor(n) == {k \in 1..Len(prs) : prs[k].data = n}

\* slide k of the presentation is a fallback slide: a title and an error note
IsFallback(k) ==
    /\ prs[k].by = "fallback"
    /\ Len(prs[k].shapes) = 2
    /\ prs[k].shapes[1].what = "title"
    /\ prs[k].shapes[2].what = "note"

\* the loop of generate handed slide n to its rendering step
Rendered(n) ==
    \E k \in 1..Len(log) : log[k].ev = "render" /\ log[k].current = n

(***************************************************************************)
(* C11.  A rendering failure on one slide never aborts the run: no         *)
(* exception leaves generate, and once generate has finished every slide   *)
(* of the deck was handed to the rendering step and every failed slide has *)
(* its warning and a fallback slide with a title and an error note.        *)
(***************************************************************************)
C11_RenderingFailureNeverAborts ==
    /\ gpc # "raised"
    /\ cpc # "raised"
    /\ gpc = "done" =>
           \A n \in 1..Len(deck_in) :
               /\ Rendered(n)
               /\ Failed(n) => \E k \in SlidesFor(n) : IsFallback(k)

(***************************************************************************)
(* C12.  After generate the presentation holds exactly one slide per       *)
(* SlideData, in deck order, and the one slide of a failed SlideData is    *)
(* its fallback slide.                                                     *)
(***************************************************************************)
C12_OneSlidePerSlideData ==
    gpc = "done" =>
        /\ Len(prs) = Len(deck_in)
        /\ \A n \in 1..Len(prs) :
               /\ prs[n].data = n
               /\ Failed(n) => IsFallback(n)

\* the presentation was saved
Saved == \E k \in 1..Len(log) : log[k].ev = "save"

\* the last warning of ws is the warning of a failed save
EndsWithSaveFailure(ws) ==
    /\ ws # <<>>
    /\ ws[Len(ws)][1] = "Failed to save: "

(***************************************************************************)
(* C13.  convert_md_to_pptx and generate_from_content return the two fatal *)
(* outcomes as a failure result: when parsing produced zero slides they    *)
(* return success = False and the generator was never invoked; when the    *)
(* save step fails, generate returns False with a 'Failed to save' warning *)
(* and they return success = False; they return success = True only if the *)
(* save step succeeded.                                                    *)
(***************************************************************************)
C13_FatalOutcomesReturned ==
    /\ (entry # "generate_pptx" /\ cpc = "returned") =>
           /\ (pc = "done" /\ Deck = <<>>) =>
                  /\ result.success = FALSE
                  /\ gpc = "idle"
                  /\ prs = <<>>
                  /\ log = <<>>
           /\ (gpc = "done" /\ ~env.save_ok) =>
                  /\ result.success = FALSE
                  /\ EndsWithSaveFailure(result.warnings)
           /\ result.success = TRUE =>
                  /\ gpc = "done"
                  /\ env.save_ok
                  /\ Saved
    /\ (gpc = "done" /\ ~env.save_ok) =>
           /\ gen_success = FALSE
           /\ EndsWithSaveFailure(gen_warnings)
           /\ ~Saved

\* convert_md_to_pptx returned the failure of a save that followed rendering
C13_Witness ==
    /\ entry = "convert_md_to_pptx"
    /\ cpc = "returned"
    /\ gpc = "done"
    /\ ~env.save_ok
    /\ prs # <<>>
    /\ result.success = FALSE
    /\ EndsWithSaveFailure(result.warnings)

\* the number of times w occurs in ws
Occurrences(w, ws) == Cardinality({k \in 1..Len(ws) : ws[k] = w})

\* the warnings the parser and the generator recorded
Recorded == {wlists[warnings][k] : k \in 1..Len(wlists[warnings])}
                \cup {gen_warnings[k] : k \in 1..Len(gen_warnings)}

(***************************************************************************)
(* C14.  On every return of convert_md_to_pptx and generate_from_content   *)
(* taken after parsing started, every warning the parser or the generator  *)
(* recorded is in the returned warning list, as many times as it was       *)
(* recorded.                                                               *)
(***************************************************************************)
C14_NoWarningLost ==
    (entry # "generate_pptx" /\ cpc = "returned" /\ pc = "done") =>
        \A w \in Recorded :
            Occurrences(w, result.warnings) >=
                Occurrences(w, wlists[warnings])
                    + Occurrences(w, gen_warnings)

\* a return after a failed save, with a warning of the parser and a warning
\* of the generator
C14_Witness ==
    /\ entry # "generate_pptx"
    /\ cpc = "returned"
    /\ pc = "done"
    /\ wlists[warnings] # <<>>
    /\ Len(gen_warnings) >= 2
    /\ result.success = FALSE
    /\ Len(result.warnings) = Len(wlists[warnings]) + Len(gen_warnings)

\* the calls of the progress callback, in order
ProgressCalls == SelectSeq(log, LAMBDA e : e.ev = "progress")

\* the call at position k of the log is the one that follows a save
AfterSave(k) == k > 1 /\ log[k - 1].ev = "save"

(***************************************************************************)
(* C15, as stated.  The callback is invoked for slide i only after slide i *)
(* has been handed to the rendering step: every call made in the loop has  *)
(* an earlier hand-over of the slide it counts.                            *)
(***************************************************************************)
C15_ProgressAfterHandOver ==
    \A k \in 1..Len(log) :
        (log[k].ev = "progress" /\ ~AfterSave(k)) =>
            \E j \in 1..(k - 1) :
                log[j].ev = "render" /\ log[j].current = log[k].current

(***************************************************************************)
(* C15, amended.  When a progress callback is set, generate invokes it for *)
(* slide i immediately before slide i is handed to the rendering step,     *)
(* with a counter that increases monotonically over the successive calls   *)
(* (1..total) and the same total in every call, and the last call it makes *)
(* has counter = total slide count.  Without a callback nothing is called. *)
(***************************************************************************)
C15_ProgressBeforeHandOver ==
    /\ ~env.verbose => ProgressCalls = <<>>
    /\ env.verbose =>
           /\ \A k \in 1..Len(log) :
                  /\ log[k].ev = "render" =>
                         /\ k > 1
                         /\ log[k - 1] = Event("progress", log[k].current,
                                                log[k].total)
                  /\ (log[k].ev = "progress" /\ ~AfterSave(k)) =>
                         /\ k < Len(log)
                         /\ log[k + 1] = Event("render", log[k].current,
                                                log[k].total)
                         /\ \A j \in 1..(k - 1) :
                                ~(log[j].ev = "render"
                                  /\ log[j].current = log[k].current)
                  /\ (log[k].ev = "progress" /\ AfterSave(k)) =>
                         /\ k = Len(log)
                         /\ log[k].current = Len(deck_in)
           /\ \A c \in 1..Len(ProgressCalls) :
                  /\ ProgressCalls[c].total = Len(deck_in)
                  /\ ProgressCalls[c].current \in 1..Len(deck_in)
                  /\ c <= Len(deck_in) => ProgressCalls[c].current = c
                  /\ c > 1 => ProgressCalls[c].current
                                  >= ProgressCalls[c - 1].current
           /\ gpc = "done" =>
                  /\ ProgressCalls # <<>>
                  /\ ProgressCalls[Len(ProgressCalls)].current = Len(deck_in)
                  /\ Saved => Len(ProgressCalls) = Len(deck_in) + 1

\* a deck of two slides was generated and saved with a callback set
C15_Witness ==
    /\ env.verbose
    /\ gpc = "done"
    /\ Len(deck_in) = 2
    /\ Saved
    /\ Len(ProgressCalls) = 3

\* what the step added to a sequence that only grows
Added(before, after) == SubSeq(after, Len(before) + 1, Len(after))

\* the content-overflow warnings among ws
OverflowWarnings(ws) ==
    SelectSeq(ws, LAMBDA w : w[1] = "Content overflow on slide: ")

\* the warnings of the except clause among ws
ErrorWarnings(ws) == SelectSeq(ws, LAMBDA w : w[1] = "Error on slide ")

\* the bottom of the content area: H - bottom margin
ContentBottom == SLIDE_HEIGHT - MARGIN_BOTTOM

\* where the cursor stands once the placements ps[1..j] are made
CursorAfter(ps, j) ==
    IF j = 0 THEN MARGIN_TOP
    ELSE ps[j].top + ps[j].height + Inches(2, 10)

\* the step renders slide data d by the creator of layout `layout`, and the
\* creator returns
RendersLayout(layout) ==
    /\ gpc = "loop"
    /\ gi' = gi + 1
    /\ gpc' = "loop"
    /\ Len(prs') = Len(prs) + 1
    /\ prs'[Len(prs')].by = layout
    /\ ErrorWarnings(Added(gen_warnings, gen_warnings')) = <<>>

(***************************************************************************)
(* C16.  A content slide is filled top-down from the top margin: the       *)
(* placed elements are a prefix of the element list, each placed where the *)
(* cursor stands, the cursor advancing by the element's height plus the    *)
(* fixed gap.  At the first element for which the cursor exceeds           *)
(* H - bottom margin placement stops and exactly one content-overflow      *)
(* warning is recorded for the slide; if no element triggers the test all  *)
(* elements are placed and no overflow warning is recorded.                *)
(***************************************************************************)
C16_ContentOverflowStopsAndWarns ==
    [][RendersLayout("content") =>
          LET elements == deck_in[gi'].elements
              ps == Added(placed, placed')
              ws == OverflowWarnings(Added(gen_warnings, gen_warnings'))
          IN  /\ Len(ps) <= Len(elements)
              /\ \A j \in 1..Len(ps) :
                     /\ ps[j].via = "flow"
                     /\ ps[j].slide = Len(prs')
                     /\ ps[j].elem = j
                     /\ ps[j].left = MARGIN_LEFT
                     /\ ps[j].top = CursorAfter(ps, j - 1)
                     /\ ps[j].top <= ContentBottom
              /\ IF Len(ps) < Len(elements)
                 THEN /\ CursorAfter(ps, Len(ps)) > ContentBottom
                      /\ ws = << <<"Content overflow on slide: ">>
                                     \o deck_in[gi'].title >>
                 ELSE ws = <<>>]_allvars

\* a content slide of three elements on which the second element no longer
\* fits: one element placed, one overflow warning
C16_Witness ==
    /\ gpc = "loop"
    /\ gi = 1
    /\ Len(prs) = 1
    /\ prs[1].by = "content"
    /\ Len(deck_in[1].elements) = 3
    /\ Len(placed) = 1
    /\ placed[1].top = MARGIN_TOP
    /\ placed[1].top + placed[1].height + Inches(2, 10) > ContentBottom
    /\ Len(OverflowWarnings(gen_warnings)) = 1
    /\ ErrorWarnings(gen_warnings) = <<>>

\* the element of the deck that placement p is about
PlacedElement(p) == deck_in[prs[p.slide].data].elements[p.elem]

\* the TABLE elements with a header row that the vertical flow placed
FlowTables ==
    {k \in 1..Len(placed) :
        /\ placed[k].via = "flow"
        /\ PlacedElement(placed[k]).type = "TABLE"
        /\ PlacedElement(placed[k]).content.headers # <<>>}

\* the TABLE elements of a deck
TablesOf(deck) ==
    UNION {{deck[n].elements[e] :
               e \in {x \in 1..Len(deck[n].elements) :
                          deck[n].elements[x].type = "TABLE"}} :
           n \in 1..Len(deck)}

(***************************************************************************)
(* C17.  A TABLE element with a header row and N data rows gets placement  *)
(* height row_height x (N + 1) when the vertical flow places it, for every *)
(* N >= 0; and every TABLE element the parser produces has a non-empty     *)
(* header list.                                                            *)
(***************************************************************************)
C17_TableHeight ==
    /\ \A k \in FlowTables :
           placed[k].height =
               Inches(4, 10) * (Len(PlacedElement(placed[k]).content.rows) + 1)
    /\ \A t \in TablesOf(Deck) : t.content.headers # <<>>
    /\ entry # "generate_pptx" =>
           \A t \in TablesOf(deck_in) : t.content.headers # <<>>

\* a parsed table of a header row and the most data rows was placed
C17_Witness ==
    /\ entry # "generate_pptx"
    /\ \E k \in FlowTables :
           /\ Len(PlacedElement(placed[k]).content.rows) = MaxRows
           /\ placed[k].height = Inches(4, 10) * (MaxRows + 1)
           /\ placed[k].height > Inches(4, 10)

\* the column c of placements holds a prefix of the elements first..last,
\* flowing from the top margin and stopping where the cursor passes
\* H - bottom margin
ColumnFlowsAndStops(c, first, last) ==
    /\ Len(c) <= last - first + 1
    /\ \A j \in 1..Len(c) :
           /\ c[j].elem = first + j - 1
           /\ c[j].top = IF j = 1 THEN MARGIN_TOP
                         ELSE c[j - 1].top + c[j - 1].height + Inches(15, 100)
           /\ c[j].top <= ContentBottom
    /\ Len(c) < last - first + 1 =>
           c[Len(c)].top + c[Len(c)].height + Inches(15, 100) > ContentBottom

(***************************************************************************)
(* C18.  On a two_column slide of n elements the first floor(n/2) elements *)
(* flow in the left column and the others in the right column, each column *)
(* from the top margin, and each column applies the overflow rule of the   *)
(* content layout: when its cursor exceeds H - bottom margin before an     *)
(* element, placement in the column stops and a content-overflow warning   *)
(* is recorded.                                                            *)
(***************************************************************************)
C18_TwoColumnOverflowRule ==
    [][RendersLayout("two_column") =>
          LET n == Len(deck_in[gi'].elements)
              mid == n \div 2
              ps == Added(placed, placed')
              lefts == SelectSeq(ps, LAMBDA p : p.left = MARGIN_LEFT)
              rights == SelectSeq(ps, LAMBDA p : p.left # MARGIN_LEFT)
              stopped == (IF Len(lefts) < mid THEN 1 ELSE 0)
                             + (IF Len(rights) < n - mid THEN 1 ELSE 0)
              ws == OverflowWarnings(Added(gen_warnings, gen_warnings'))
          IN  /\ ColumnFlowsAndStops(lefts, 1, mid)
              /\ ColumnFlowsAndStops(rights, mid + 1, n)
              /\ Len(ws) = stopped]_allvars

(***************************************************************************)
(* Vocabulary of the properties of fenced code.                            *)
(***************************************************************************)
\* the fence lines after the opening fence at index a
FencesAfter(a) == {j \in (a + 1)..(Len(lines) - 1) : IsFence(At(lines, j))}

\* the index of the fence that closes the one at a, Len(lines) when none does
CloseOf(a) ==
    IF FencesAfter(a) = {} THEN Len(lines)
    ELSE CHOOSE j \in FencesAfter(a) : \A x \in FencesAfter(a) : j <= x

\* the lines strictly between the fence at a and its closing fence or the end
InnerLines(a) == SubSeq(lines, a + 2, CloseOf(a))

\* where the scan resumes after the block opened at a
ResumeOf(a) == IF FencesAfter(a) = {} THEN Len(lines) ELSE CloseOf(a) + 1

\* the scan never handles a line inside a fenced block as a block of its own
InnerLinesNeverScanned ==
    \A k \in 1..Len(blocks) :
        blocks[k].kind = "code" =>
            \A j \in 1..Len(blocks) :
                ~(blocks[k].at < blocks[j].at
                  /\ blocks[j].at < ResumeOf(blocks[k].at))

\* a scan iteration entered at an opening fence
CodeIteration ==
    /\ pc = "scan"
    /\ i < Len(lines)
    /\ IsFence(At(lines, i))
    /\ blocks' # blocks

\* what such an iteration does: one CODE_BLOCK holding the inner lines is
\* appended to the slide in progress, which is a new Untitled slide only if
\* there was none; nothing else changes and the scan resumes past the block
ConsumesVerbatim ==
    LET old == IF current_slide = None THEN <<>>
               ELSE heap[current_slide].elements
        new == heap'[current_slide'].elements
    IN  /\ i' = ResumeOf(i)
        /\ blocks' = Append(blocks, [at |-> i, kind |-> "code"])
        /\ IF current_slide = None
           THEN /\ Len(heap') = Len(heap) + 1
                /\ current_slide' = Len(heap')
                /\ heap'[current_slide'].title = Untitled
                /\ heap'[current_slide'].layout_hint = "content"
                /\ heap'[current_slide'].subtitle = <<>>
           ELSE /\ Len(heap') = Len(heap)
                /\ current_slide' = current_slide
                /\ heap'[current_slide'].title = heap[current_slide].title
                /\ heap'[current_slide'].layout_hint =
                       heap[current_slide].layout_hint
                /\ heap'[current_slide'].subtitle =
                       heap[current_slide].subtitle
        /\ \A id \in 1..Len(heap) : id # current_slide => heap'[id] = heap[id]
        /\ Len(new) = Len(old) + 1
        /\ SubSeq(new, 1, Len(old)) = old
        /\ new[Len(new)].type = "CODE_BLOCK"
        /\ new[Len(new)].content = join(InnerLines(i), NL)
        /\ lists' = lists
        /\ slides' = slides
        /\ wlists' = wlists
        /\ warnings' = warnings

(***************************************************************************)
(* C19.  Fenced code is consumed verbatim: the lines strictly between an   *)
(* opening fence and the next fence line, or the end of input when there   *)
(* is none, make the content of one CODE_BLOCK element and nothing else;   *)
(* whatever they look like they open no slide, add no other element and    *)
(* record no warning; an unterminated fence yields one CODE_BLOCK holding  *)
(* all remaining lines and ends the scan.                                  *)
(***************************************************************************)
C19_FencedCodeVerbatim ==
    []InnerLinesNeverScanned /\ [][CodeIteration => ConsumesVerbatim]_vars

\* an unterminated fence before a heading line and a list item: one
\* Untitled slide holding one CODE_BLOCK with both lines, no warning
C19_Witness ==
    /\ pc = "done"
    /\ lines = <<LnFence, LnH1, LnBullet>>
    /\ Len(blocks) = 1
    /\ Len(Deck) = 1
    /\ Deck[1].title = Untitled
    /\ Len(Deck[1].elements) = 1
    /\ Deck[1].elements[1].type = "CODE_BLOCK"
    /\ Deck[1].elements[1].content = LnH1 \o <<NL>> \o LnBullet
    /\ Warnings = <<>>

(***************************************************************************)
(* Vocabulary of the properties of the classification.                     *)
(***************************************************************************)
\* the rules in their fixed order
RuleNames ==
    <<"code", "table", "heading", "image", "bullet", "numbered", "paragraph">>

\* rule r matches at index k
RuleMatches(r, k) ==
    LET line == At(lines, k)
    IN  CASE r = 1 -> IsFence(line)
          [] r = 2 -> /\ "|" \in Range(line)
                      /\ k + 1 < Len(lines)
                      /\ "|" \in Range(At(lines, k + 1))
                      /\ SeparatorMatch(At(lines, k + 1))
          [] r = 3 -> HeadingMatch(line)
          [] r = 4 -> ImgMatch(line)
          [] r = 5 -> BulletEntry(line)
          [] r = 6 -> NumberedEntry(line)
          [] r = 7 -> strip(line) # <<>>

\* block b was handled by a rule that matches where no earlier rule does, or
\* as a blank line where no rule matches
ByFirstMatchingRule(b) ==
    \/ \E r \in 1..Len(RuleNames) :
           /\ b.kind = RuleNames[r]
           /\ RuleMatches(r, b.at)
           /\ \A q \in 1..(r - 1) : ~RuleMatches(q, b.at)
    \/ /\ b.kind = "blank"
       /\ \A q \in 1..Len(RuleNames) : ~RuleMatches(q, b.at)

\* a scan iteration entered at a line that is a level-1/2 heading and also
\* the header of a table
HeadingTableIteration ==
    /\ pc = "scan"
    /\ i < Len(lines)
    /\ IsHeadingLine(At(lines, i))
    /\ RuleMatches(2, i)
    /\ blocks' # blocks

\* the iteration appends one TABLE element to the slide in progress, which
\* is a new Untitled slide only if there was none, and finishes no slide
MakesTableOnly ==
    LET old == IF current_slide = None THEN <<>>
               ELSE heap[current_slide].elements
        new == heap'[current_slide'].elements
    IN  /\ blocks'[Len(blocks')] = [at |-> i, kind |-> "table"]
        /\ i' > i + 1
        /\ IF current_slide = None
           THEN /\ Len(heap') = Len(heap) + 1
                /\ current_slide' = Len(heap')
                /\ heap'[current_slide'].title = Untitled
           ELSE /\ Len(heap') = Len(heap)
                /\ current_slide' = current_slide
                /\ heap'[current_slide'].title = heap[current_slide].title
        /\ heap'[current_slide'].layout_hint # "title"
               \/ (current_slide # None
                      /\ heap[current_slide].layout_hint = "title")
        /\ Len(new) = Len(old) + 1
        /\ SubSeq(new, 1, Len(old)) = old
        /\ new[Len(new)].type = "TABLE"
        /\ lists' = lists
        /\ slides' = slides

IsDashCell(cell) == cell # <<>> /\ Range(cell) \subseteq {"-", ":"}

\* a separator row: a row all of whose cells consist only of dashes/colons
IsSeparatorRow(line) ==
    /\ "|" \in Range(line)
    /\ \A k \in 1..Len(TableCells(line)) : IsDashCell(TableCells(line)[k])

\* the line at index k contains '|' and the next line is a separator row
HeaderAboveSeparator(k) ==
    /\ "|" \in Range(At(lines, k))
    /\ k + 1 < Len(lines)
    /\ IsSeparatorRow(At(lines, k + 1))

(***************************************************************************)
(* C21.  A line starts a table if and only if it contains '|' and the next *)
(* line is a separator row, a row all of whose cells consist only of       *)
(* dashes/colons; a '|' line whose next line is not such a row makes no    *)
(* TABLE element and is handled by a later rule, as a paragraph when it is *)
(* not a heading, an image or a list item.                                 *)
(***************************************************************************)
C21_TableIffSeparatorRow ==
    \A k \in 1..Len(blocks) :
        LET b == blocks[k]
            line == At(lines, b.at)
        IN  (b.kind # "code") =>
                /\ b.kind = "table" <=> HeaderAboveSeparator(b.at)
                /\ ("|" \in Range(line) /\ ~HeaderAboveSeparator(b.at)) =>
                       /\ b.kind \in {"heading", "image", "bullet",
                                       "numbered", "paragraph"}
                       /\ (~HeadingMatch(line) /\ ~ImgMatch(line)
                              /\ ~BulletEntry(line) /\ ~NumberedEntry(line))
                             => b.kind = "paragraph"

(***************************************************************************)
(* Vocabulary of the properties of lists.                                  *)
(***************************************************************************)
\* the line at index k is an item of the kind of list
IsItemOf(kind, k) ==
    IF kind = "bullet" THEN BulletItemMatch(At(lines, k))
    ELSE NumberedItemMatch(At(lines, k))

IsBlankAt(k) == strip(At(lines, k)) = <<>>

\* the number of whitespace characters the line starts with
LeadingWhitespace(line) ==
    Cardinality({n \in 1..Len(line) : \A j \in 1..n : line[j] \in WS})

\* the item of the line at index k: its text and its indent
ItemOf(kind, k) ==
    [text |-> IF kind = "bullet" THEN BulletItem(At(lines, k)).text
              ELSE NumberedItem(At(lines, k)).text,
     indent |-> LeadingWhitespace(At(lines, k)) \div 2]

\* the items of the lines first..last - 1, in source order
RECURSIVE ItemsBetween(_, _, _)
ItemsBetween(kind, first, last) ==
    IF first >= last THEN <<>>
    ELSE (IF IsItemOf(kind, first) THEN <<ItemOf(kind, first)>> ELSE <<>>)
             \o ItemsBetween(kind, first + 1, last)

\* the lines first..last - 1 are the block of the list that starts at first:
\* items and single blank lines, a blank line inside it only before another
\* item, ending where the list ends
IsListBlock(kind, first, last) ==
    /\ first < last
    /\ last <= Len(lines)
    /\ \A k \in first..(last - 1) :
           /\ IsItemOf(kind, k) \/ IsBlankAt(k)
           /\ (IsBlankAt(k) /\ k < last - 1) => IsItemOf(kind, k + 1)
    /\ last < Len(lines) =>
           /\ ~IsItemOf(kind, last)
           /\ IsItemOf(kind, last - 1) => ~IsBlankAt(last)

\* a scan iteration entered at a list item
ListIteration(kind) ==
    /\ pc = "scan"
    /\ i < Len(lines)
    /\ blocks' = Append(blocks, [at |-> i, kind |-> kind])
    /\ IsItemOf(kind, i)

\* the iteration appends one list element holding the items of its block to
\* the slide in progress and resumes at the end of the block
YieldsReferenceList(kind, type) ==
    LET old == IF current_slide = None THEN <<>>
               ELSE heap[current_slide].elements
        new == heap'[current_slide'].elements
    IN  /\ IsListBlock(kind, i, i')
        /\ Len(new) = Len(old) + 1
        /\ SubSeq(new, 1, Len(old)) = old
        /\ new[Len(new)].type = type
        /\ new[Len(new)].content = ItemsBetween(kind, i, i')
        /\ current_slide # None => current_slide' = current_slide
        /\ \A id \in 1..Len(heap) : id # current_slide => heap'[id] = heap[id]

(***************************************************************************)
(* C22.  A list block equals its reference result.  Starting at a list     *)
(* item, the block absorbs the following items of the same kind, and a     *)
(* blank line only when the line right after it is another item of the     *)
(* kind; otherwise the list ends and the line after the blank is           *)
(* classified afresh, so two blank lines in a row always end the list.     *)
(* The block yields exactly one list element whose items are in source     *)
(* order, each with indent = (leading whitespace characters) // 2.         *)
(***************************************************************************)
C22_ListBlockIsReference ==
    [][/\ ListIteration("bullet") =>
              YieldsReferenceList("bullet", "BULLET_LIST")
       /\ ListIteration("numbered") =>
              YieldsReferenceList("numbered", "NUMBERED_LIST")]_vars

\* five bullet items behind 0, 1, 2, 3 and 4 spaces: one list of five items
\* with indents 0, 0, 1, 1, 2
C22_Witness ==
    /\ pc = "done"
    /\ lines = [k \in 1..5 |-> Indented(k - 1, LnBullet)]
    /\ Len(Deck) = 1
    /\ Len(Deck[1].elements) = 1
    /\ Deck[1].elements[1].type = "BULLET_LIST"
    /\ [k \in 1..5 |-> Deck[1].elements[1].content[k].indent]
           = <<0, 0, 1, 1, 2>>

(***************************************************************************)
(* Vocabulary of the properties of non-local images.                       *)
(***************************************************************************)
\* a scan iteration that handles an image reference with a non-local path
NonLocalImageIteration ==
    /\ pc = "scan"
    /\ i < Len(lines)
    /\ blocks' = Append(blocks, [at |-> i, kind |-> "image"])
    /\ C5_NonLocalPath(ImgPath(At(lines, i)))

\* the deck and the slide objects are what they were
SlidesUntouched ==
    /\ lists' = lists
    /\ slides' = slides
    /\ \A id \in 1..Len(heap) : heap'[id] = heap[id]

\* one warning more, in the same list
OneWarningMore ==
    /\ warnings' = warnings
    /\ Len(wlists'[warnings']) = Len(wlists[warnings]) + 1
    /\ SubSeq(wlists'[warnings'], 1, Len(wlists[warnings])) = wlists[warnings]

(***************************************************************************)
(* C23, as stated.  Handling a non-local image reference changes only the  *)
(* warning list: the deck, the slide in progress, whether there is one at  *)
(* all, and every element list are the same before and after, in every    *)
(* state of the parser.                                                    *)
(***************************************************************************)
C23_NonLocalImageChangesOnlyWarnings ==
    [][NonLocalImageIteration =>
          /\ SlidesUntouched
          /\ heap' = heap
          /\ current_slide' = current_slide]_vars

(***************************************************************************)
(* C23, amended.  Handling a non-local image reference adds one warning    *)
(* and leaves the deck and every existing slide and element list as they   *)
(* were; the slide in progress stays the same when there is one, and when  *)
(* no slide has been opened yet an empty 'Untitled' slide is opened and    *)
(* becomes the slide in progress.                                          *)
(***************************************************************************)
C23_NonLocalImageOpensAtMostASlide ==
    [][NonLocalImageIteration =>
          /\ OneWarningMore
          /\ SlidesUntouched
          /\ IF current_slide # None
             THEN heap' = heap /\ current_slide' = current_slide
             ELSE /\ heap' = Append(heap, SlideData(Untitled))
                  /\ current_slide' = Len(heap')]_vars

\* a non-local image reference was handled before any slide was open, and
\* another one with a slide in progress
C23_Witness ==
    /\ Len(blocks) = 2
    /\ blocks[1].kind = "image"
    /\ blocks[2].kind = "image"
    /\ Len(Warnings) = 2
    /\ current_slide # None
    /\ heap[current_slide].title = Untitled
    /\ heap[current_slide].elements = <<>>

(***************************************************************************)
(* Vocabulary of the properties of lazy slide creation.                    *)
(***************************************************************************)
\* the slides this parse has opened so far, in order, by identity: the ones
\* appended to the deck and the one in progress
Opened ==
    IF current_slide # None /\ current_slide \notin Range(lists[slides])
    THEN Append(lists[slides], current_slide)
    ELSE lists[slides]

\* the step creates a slide lazily
CreatesLazily == Len(origin') > Len(origin) /\ origin'[Len(origin')] = "lazy"

\* only the first slide a parse opens can be a lazily created one
OnlyFirstIsLazy ==
    /\ \A k \in 1..Len(Opened) :
           /\ origin[Opened[k]] = "lazy" =>
                  k = 1 /\ heap[Opened[k]].title = Untitled
           /\ k > 1 => origin[Opened[k]] \in {"h1", "h2"}
    /\ lists[slides] # <<>> => current_slide # None
    /\ Len(Opened) <= Len(SlideHeadings) + 1
    /\ pc = "done" =>
           /\ Len(Deck) <= Len(HeadingLines) + 1
           /\ DeckIds = Opened

\* within a parse the slide in progress never becomes empty again, and a
\* slide is created lazily only while none has been opened
LazyOnlyWhileNoneOpen ==
    run' = run =>
        /\ current_slide # None => current_slide' # None
        /\ CreatesLazily => current_slide = None /\ lists[slides] = <<>>

(***************************************************************************)
(* C24.  Lazy slide creation happens at most once per parse and only while *)
(* no slide has been opened yet: once current_slide is set it never        *)
(* becomes empty again, so a lazily created 'Untitled' slide can only be   *)
(* the first of the deck, every other slide is opened by a level-1/2       *)
(* heading, and the deck has at most (number of level-1/2 headings) + 1    *)
(* slides.                                                                 *)
(***************************************************************************)
C24_LazySlideOnlyFirst ==
    []OnlyFirstIsLazy /\ [][LazyOnlyWhileNoneOpen]_vars

\* a paragraph before two headings: three slides, the first created lazily
C24_Witness ==
    /\ pc = "done"
    /\ Len(Deck) = 3
    /\ origin[DeckIds[1]] = "lazy"
    /\ origin[DeckIds[2]] = "h1"
    /\ origin[DeckIds[3]] = "h2"
    /\ Len(HeadingLines) = 2

\* the step renders a content slide and records no content-overflow warning
RendersContentWithoutOverflow ==
    /\ RendersLayout("content")
    /\ OverflowWarnings(Added(gen_warnings, gen_warnings')) = <<>>

\* placement p lies inside the vertical content area
InsideContentArea(p) == p.top + p.height <= ContentBottom

(***************************************************************************)
(* C25, as stated.  On a content slide for which no content-overflow       *)
(* warning is recorded every placed element lies inside the vertical       *)
(* content area: its top plus its estimated height is <= H - bottom        *)
(* margin.                                                                 *)
(***************************************************************************)
C25_PlacedElementsFit ==
    [][RendersContentWithoutOverflow =>
          \A k \in (Len(placed) + 1)..Len(placed') :
              InsideContentArea(placed'[k])]_allvars

(***************************************************************************)
(* C25, amended.  On a content slide for which no content-overflow warning *)
(* is recorded every element is placed, every placed element except the    *)
(* last lies inside the vertical content area, and the last one starts     *)
(* inside it: its top is <= H - bottom margin, its height is not tested.   *)
(***************************************************************************)
C25_AllButLastFit ==
    [][RendersContentWithoutOverflow =>
          LET ps == Added(placed, placed')
          IN  /\ Len(ps) = Len(deck_in[gi'].elements)
              /\ \A j \in 1..Len(ps) :
                     /\ ps[j].top <= ContentBottom
                     /\ j < Len(ps) => InsideContentArea(ps[j])]_allvars

\* a content slide of a paragraph and a list of many items: both placed, no
\* overflow warning, the list reaching below the content area
C25_Witness ==
    /\ gpc = "loop"
    /\ gi = 1
    /\ Len(prs) = 1
    /\ prs[1].by = "content"
    /\ gen_warnings = <<>>
    /\ Len(placed) = 2
    /\ Len(deck_in[1].elements) = 2
    /\ InsideContentArea(placed[1])
    /\ placed[2].top <= ContentBottom
    /\ ~InsideContentArea(placed[2])

(***************************************************************************)
(* Vocabulary of the properties of the image layout.                       *)
(***************************************************************************)
\* the number of the first IMAGE element of a slide, 0 when it has none
FirstImage(elements) ==
    IF HasType(elements, "IMAGE")
    THEN CHOOSE k \in 1..Len(elements) :
             /\ elements[k].type = "IMAGE"
             /\ \A j \in 1..(k - 1) : elements[j].type # "IMAGE"
    ELSE 0

\* the image slides of a parsed deck hold an image and at most 3 elements
ParsedImageSlidesAreSmall ==
    entry # "generate_pptx" =>
        \A n \in 1..Len(deck_in) :
            deck_in[n].layout_hint = "image" =>
                /\ HasType(deck_in[n].elements, "IMAGE")
                /\ Len(deck_in[n].elements) <= 3

\* the step hands every element of the slide to placement: the first IMAGE
\* to the centered box, the others below it in their order
PlacesEveryElement ==
    LET elements == deck_in[gi'].elements
        ps == Added(placed, placed')
    IN  /\ Len(ps) = Len(elements)
        /\ Len(ps) - 1 <= 2
        /\ {ps[j].elem : j \in 1..Len(ps)} = 1..Len(elements)
        /\ ps[1].via = "image"
        /\ ps[1].elem = FirstImage(elements)
        /\ ps[1].left = Inches(2, 1)
        /\ ps[1].top = Inches(15, 10)
        /\ ps[1].width = SLIDE_WIDTH - Inches(4, 1)
        /\ \A j \in 2..Len(ps) :
               /\ ps[j].via = "flow"
               /\ ps[j].slide = Len(prs')
               /\ ps[j].left = MARGIN_LEFT
               /\ ps[j].top = IF j = 2 THEN Inches(55, 10)
                               ELSE ps[j - 1].top + ps[j - 1].height
                                        + Inches(1, 10)
               /\ j > 2 => ps[j].elem > ps[j - 1].elem

(***************************************************************************)
(* C26.  For every slide of a parser-produced deck that has layout_hint    *)
(* 'image', the image layout hands every element of the slide to           *)
(* placement: the first IMAGE goes to the centered box and all remaining   *)
(* elements, at most two because the layout is chosen only for at most 3   *)
(* elements, are placed below it; the limit of two additional elements     *)
(* never drops an element of a parsed slide.                               *)
(***************************************************************************)
C26_ImageLayoutPlacesAll ==
    /\ []ParsedImageSlidesAreSmall
    /\ [][(entry # "generate_pptx" /\ RendersLayout("image"))
             => PlacesEveryElement]_allvars

\* a parsed slide of a paragraph and two images: the first image in the
\* box, the paragraph and the second image below it
C26_Witness ==
    /\ entry # "generate_pptx"
    /\ gpc = "done"
    /\ Len(deck_in) = 1
    /\ deck_in[1].layout_hint = "image"
    /\ Len(deck_in[1].elements) = 3
    /\ Len(prs) = 1
    /\ Len(placed) = 3
    /\ placed[1].via = "image" /\ placed[1].elem = 2
    /\ placed[2].via = "flow" /\ placed[2].elem = 1
    /\ placed[3].via = "flow" /\ placed[3].elem = 3

(***************************************************************************)
(* C27: the update check under every interleaving of the worker pool.      *)
(***************************************************************************)
\* the tasks submitted for a skill
TasksOf(s) == {t \in DOMAIN futures : futures[t].skill = s}
\* how often a skill is in results
TimesIn(res, s) == Cardinality({k \in DOMAIN res : res[k] = s})
\* git did not print a hash: it raised, failed, or printed only white space
TaskFailed(answer) ==
    \/ answer.exc # ""
    \/ answer.returncode # 0
    \/ \A k \in DOMAIN answer.stdout : answer.stdout[k] \in {" ", "\t", NL}
\* the hash git printed
HeadOf(answer) ==
    answer.stdout[CHOOSE k \in DOMAIN answer.stdout :
                     /\ answer.stdout[k] \notin {" ", "\t", NL}
                     /\ \A j \in 1..(k - 1) :
                           answer.stdout[j] \in {" ", "\t", NL}]
\* the status a skill is due, from its own fields and its own task
StatusDue(skill, answer) ==
    IF skill.source_url = "" THEN "unmanaged"
    ELSE IF TaskFailed(answer) THEN "error"
    ELSE IF skill.local_hash = "" THEN "unknown"
    ELSE IF HeadOf(answer) # skill.local_hash THEN "outdated"
    ELSE "current"
OneResultPerSkill ==
    /\ \A s \in DOMAIN skills : TimesIn(results, s) <= 1
    /\ upc = "returned" =>
          /\ Len(results) = Len(skills)
          /\ \A s \in DOMAIN skills : TimesIn(results, s) = 1
StatusFromOwnTask ==
    upc = "returned" =>
       \A s \in DOMAIN skills :
          IF skills[s].source_url = ""
          THEN /\ TasksOf(s) = {}
               /\ skills[s].status = "unmanaged"
          ELSE /\ Cardinality(TasksOf(s)) = 1
               /\ \A t \in TasksOf(s) :
                     /\ futures[t].state = "finished"
                     /\ skills[s].status =
                           StatusDue(skills[s], futures[t].answer)
\* a step changes a skill only when it marks it unmanaged or collects the
\* skill's own task, never its source_url or local_hash, and never again
OnlyOwnTaskChangesASkill ==
    /\ Len(skills') = Len(skills)
    /\ \A s \in DOMAIN skills :
          skills'[s] # skills[s] =>
             /\ skills[s].status = Absent
             /\ skills'[s].source_url = skills[s].source_url
             /\ skills'[s].local_hash = skills[s].local_hash
             /\ \/ upc = "start" /\ skills[s].source_url = ""
                \/ \E t \in TasksOf(s) :
                      /\ ~futures[t].collected
                      /\ futures'[t].collected
\* C27: for every completion order of the tasks and every set of tasks that
\* fail or time out, check_updates returns exactly one result per input
\* skill; each status is unmanaged, error, unknown, outdated or current as
\* the skill's own source_url, local hash and remote hash say; a failed or
\* timed-out task gives 'error' to its own skill and changes no other one.
C27_OneResultPerSkill ==
    /\ []OneResultPerSkill
    /\ []StatusFromOwnTask
    /\ [][OnlyOwnTaskChangesASkill]_uvars
\* three managed skills handed back in another order than they came in,
\* the task of the first timed out, the others current and outdated
C27_Witness ==
    /\ upc = "returned"
    /\ Len(skills) = 3
    /\ results = <<3, 1, 2>>
    /\ \A t \in TasksOf(1) : futures[t].answer.exc = "TimeoutExpired"
    /\ skills[1].status = "error"
    /\ skills[2].status = "current"
    /\ skills[3].status = "outdated"

(***************************************************************************)
(* C28: the deck is empty exactly for blank input.                         *)
(***************************************************************************)
\* every line of the text is empty or white space
AllLinesBlank(text) ==
    \A k \in 1..Len(split(text, NL)) : strip(split(text, NL)[k]) = <<>>
\* C28: parse returns an empty deck if and only if every input line is
\* blank; any line that is not blank, a dropped non-local image included,
\* leaves a slide in the deck, and an empty deck comes with no warnings.
C28_EmptyDeckIffBlankInput ==
    \A n \in 1..Len(returns) :
       /\ returns[n].deck = <<>> <=> AllLinesBlank(markdown_text)
       /\ returns[n].deck = <<>> => returns[n].warns = <<>>
\* four lines of spaces and tabs give an empty deck without warnings
C28_Witness ==
    /\ Len(returns) > 0
    /\ Len(split(markdown_text, NL)) = 4
    /\ \E k \in 1..4 : split(markdown_text, NL)[k] # <<>>
    /\ AllLinesBlank(markdown_text)
    /\ returns[1].deck = <<>>
    /\ returns[1].warns = <<>>
\* only a non-local image and blank lines: the deck holds one empty slide
C28_DroppedImageLeavesSlide ==
    /\ Len(returns) > 0
    /\ markdown_text = join(<<LnBlank, LnSpaces, LnImageHttp, LnSpaces>>, NL)
    /\ Len(returns[1].deck) = 1
    /\ returns[1].deck[1].elements = <<>>
    /\ Len(returns[1].warns) = 1

(***************************************************************************)
(* C29: no chart from Markdown.                                            *)
(***************************************************************************)
ParserHints == {"title", "content", "two_column", "image"}
NoChartIn(deck) ==
    \A k \in 1..Len(deck) :
       /\ deck[k].layout_hint \in ParserHints
       /\ ~HasType(deck[k].elements, "CHART_DATA")
\* no SlideData the parser made holds chart data, and every deck parse
\* handed back has the four hints only
ParsedDecksHaveNoChart ==
    /\ \A id \in 1..Len(heap) : ~HasType(heap[id].elements, "CHART_DATA")
    /\ \A n \in 1..Len(returns) : NoChartIn(returns[n].deck)
\* generate gets no chart slide from a parse and never builds one
ChartBranchNotTaken ==
    entry # "generate_pptx" =>
       /\ NoChartIn(deck_in)
       /\ \A k \in 1..Len(prs) : prs[k].by # "chart"
       /\ \A k \in 1..Len(placed) : placed[k].via # "chart"
\* C29: every slide of a deck returned by parse has layout_hint title,
\* content, two_column or image; no parser step creates a CHART_DATA element,
\* so for a deck that comes from Markdown generate never takes the chart
\* branch, the conversion of a table to a chart included.
C29_NoChartFromMarkdown == ParsedDecksHaveNoChart /\ ChartBranchNotTaken
\* a parsed slide that holds a table has been rendered as a content slide
C29_Witness ==
    /\ entry # "generate_pptx"
    /\ Len(returns) = 1
    /\ Len(prs) > 0
    /\ \E k \in 1..Len(prs) :
          /\ HasType(deck_in[prs[k].data].elements, "TABLE")
          /\ deck_in[prs[k].data].layout_hint = "content"
          /\ prs[k].by = "content"
          /\ \E j \in 1..Len(placed) :
                placed[j].slide = k /\ PlacedElement(placed[j]).type = "TABLE"
\* handed a deck directly, generate does take the chart branch
C29_ChartBranchOfDeck ==
    /\ entry = "generate_pptx"
    /\ \E k \in 1..Len(placed) : placed[k].via = "chart"

(***************************************************************************)
(* C30: a title slide shows its title and subtitle only.                   *)
(***************************************************************************)
\* the step runs the loop of generate on a slide with layout_hint 'title'
TitleIteration ==
    /\ gpc = "loop"
    /\ gi' = gi + 1
    /\ deck_in[gi'].layout_hint = "title"
\* the text boxes of the slide added last
ShapesAdded(p) == [k \in 1..Len(p[Len(p)].shapes) |-> p[Len(p)].shapes[k].what]
\* nothing of the elements is placed, no warning tells of it; where the
\* creator returns the slide holds the title and, if there is one, the
\* subtitle, and nothing else
TitleAndSubtitleOnly ==
    /\ placed' = placed
    /\ Added(gen_warnings, gen_warnings')
          = ErrorWarnings(Added(gen_warnings, gen_warnings'))
    /\ RendersLayout("title") =>
          /\ gen_warnings' = gen_warnings
          /\ ShapesAdded(prs') = IF deck_in[gi'].subtitle = <<>>
                                 THEN <<"title">>
                                 ELSE <<"title", "subtitle">>
\* in a parsed deck the slide of a level-1 heading has layout_hint 'title',
\* whatever its elements
LevelOneKeepsTitle ==
    (entry # "generate_pptx" /\ deck_in # <<>>) =>
       /\ Len(deck_in) = Len(DeckIds)
       /\ \A k \in 1..Len(deck_in) :
             origin[DeckIds[k]] = "h1" => deck_in[k].layout_hint = "title"
\* C30: for a slide with layout_hint 'title' generate places the title and
\* the non-empty subtitle only; none of its elements is placed and no warning
\* is recorded for them, however many there are; a level-1 slide keeps the
\* layout 'title' whatever follows its subtitle, so that content is absent
\* from the output.
C30_TitleSlideDropsElements ==
    /\ []LevelOneKeepsTitle
    /\ [][TitleIteration => TitleAndSubtitleOnly]_allvars
\* '# A', a subtitle, then a paragraph, a numbered list and an image: the
\* output slide holds the title and the subtitle, nothing was placed and no
\* warning was recorded
C30_Witness ==
    /\ entry # "generate_pptx"
    /\ gpc = "done"
    /\ Len(deck_in) = 1
    /\ deck_in[1].layout_hint = "title"
    /\ deck_in[1].subtitle # <<>>
    /\ Len(deck_in[1].elements) = 3
    /\ Len(prs) = 1
    /\ ShapesAdded(prs) = <<"title", "subtitle">>
    /\ placed = <<>>
    /\ gen_warnings = <<>>
====
